---- MODULE Spec2Model ----
\* Verification model of the flight-path renderers:
\*   PlanesShader (src/src/planes/PlanesShader.ts) - instanced panes animated on
\*     the GPU from (phase, speed) and one shared time uniform, with the
\*     return-mode drain state machine;
\*   panes vertex stage (src/src/shaders/panes.frag) - cycle / path parameter;
\*   Curves (src/src/curves/Curves.ts) - merged line renderer.
\*
\* Numbers.  Progress, phase and speed*time are fixed-point integers: one
\* cycle-unit (1.0) is Unit grid steps and the code's epsilon (1e-4) is Eps grid
\* steps, so the grid is finer than epsilon.  Time is counted in whole seconds
\* and speed in grid steps per second.  Arithmetic on the grid is exact.
\*
\* Float32Array storage.  Control point coordinates are integers and a store
\* into a Float32Array rounds them to a 24-bit significand (F32Round).  The
\* speed-change arithmetic of setAnimationSpeed is modelled a second time, bit
\* for bit, on a binary grid of 2^-28 (variables f32, f32Before): on that grid
\* every product, sum and remainder the code computes in double precision is
\* exact, and the two stores into animationParams round to single precision.
EXTENDS Integers, Naturals, Sequences, FiniteSets, TLC

\* ---------------------------------------------------------------- bounds --
MaxPanes == 2
MaxTime == 20
MaxCurves == 2
SegmentsPerCurve == 2

\* ------------------------------------------------------------- constants --
Eps == 3
Unit == 10000 * Eps
DefaultSpeed == Unit \div 10
\* significand bits of a Float32Array element
F32Mantissa == 24
\* Curves.verticesPerSegment
VerticesPerSegment == 2
VerticesPerCurve == SegmentsPerCurve * VerticesPerSegment
\* PlanesShader.baseSize (options.baseSize || 100)
BaseSize == 100
\* colours as 0xRRGGBB numbers: white, and the fallback of _resolveSolidColor
White == 16777215
FallbackColor == 4491519

Panes == 0 .. (MaxPanes - 1)
\* counts handed to setActivePaneCount
PaneCountInputs == (0 - 1) .. (MaxPanes + 1)
\* deltaTime values handed to update
DeltaTimes == {5}
\* values Math.random() yielded for the initial phases, in [0, 1): instance 0
\* starts a cycle exactly at time 0, instance 1 one grid step before the end of
\* a forward leg, instance 2 one grid step after the start
InitialPhases == <<0, Unit - 1, 1>>
InitialPhase(i) == InitialPhases[(i % 3) + 1]
\* instances whose speed the caller changes
SpeedIndexInputs == {0}
\* speeds handed to setAnimationSpeed (grid steps per second)
SpeedChoices == {DefaultSpeed, 2 * DefaultSpeed}

ZeroPoint == <<0, 0, 0>>
\* four control points at the origin
PointsOrigin == <<ZeroPoint, ZeroPoint, ZeroPoint, ZeroPoint>>
PointsA == << <<1, 2, 3>>, <<4, 5, 6>>, <<7, 8, 9>>, <<10, 11, 12>> >>
\* four points with coordinates that single precision cannot hold exactly
\* (2^24 + 1, 2^25 + 6, -(2^24 + 3)) next to coordinates it can
PointsB == << <<16777217, 0 - 2, 3>>, <<33554438, 5, 0 - 16777219>>,
              <<7, 8, 9>>, <<0 - 10, 16777218, 12>> >>
PointsShort == << <<1, 2, 3>>, <<4, 5, 6>>, <<7, 8, 9>> >>
PointsLong == << <<21, 22, 23>>, <<24, 25, 26>>, <<27, 28, 29>>,
                 <<30, 31, 32>>, <<33, 34, 35>> >>
\* control point lists handed to setCurveControlPoints: 4 points, 3 points
\* (rejected) and 5 points (the first 4 are used)
ControlPointInputs == { PointsA, PointsB, PointsShort, PointsLong }

VARIABLES
  time,                     \* material.uniforms.time.value
  returnModeEnabled,        \* flag the vertex stage uses (uniform returnMode)
  returnModePreferred,      \* mode the caller asked for
  activePanes,              \* instances considered by the reconciliation loop
  animationParams,          \* per instance (phase, speed, tiltMode, visible)
  pendingReturnCompletion,  \* per instance 0 / 1
  controlPointsPack1,       \* per instance (p0.x, p0.y, p0.z, p1.x)
  controlPointsPack2,       \* per instance (p1.y, p1.z, p2.x, p2.y)
  controlPointsPack3,       \* per instance (p2.z, p3.x, p3.y, p3.z)
  landing,                  \* instances that were on their return leg at the
                            \* last disable request, are still visible and
                            \* have not finished that leg
  drawnOnReturn,            \* instances the last frame drew on a return leg
  \* PlanesShader, appearance
  instanceColors,           \* per instance colour
  instanceScales,           \* per instance size / baseSize, in percent
  instanceElevations,       \* per instance elevation offset
  instanceUvTransforms,     \* per instance (offsetX, offsetY, scaleX, scaleY)
  atlasInfo,                \* atlas metadata of the texture, or NoAtlas
  useTexture,               \* uniform useTexture (0 / 1)
  \* Curves
  curveData,                \* per slot controlPoints, color, metadata, visible
  positions,                \* per slot: the vertices of its segments
  colors,                   \* per slot: the colour of each vertex
  lineDistances,            \* per slot: the arc length at each vertex
  currentCurveCount,
  drawRange,                \* geometry.drawRange (start, count)
  needsPositionUpdate,
  needsColorUpdate,
  needsLineDistanceUpdate,
  attributeNeedsUpdate,     \* geometry attributes flagged for upload
  uploadedDistances,        \* the arc-length values as of the last flagged
                            \* upload of the lineDistance attribute
  dashSize,
  gapSize,
  material,                 \* the material the mesh draws with
  \* console
  lastCall,                 \* how the last call ended: "accepted", "warned"
                            \* (rejected with console.warn) or "silent"
                            \* (rejected by an early return that logs nothing)
  \* single-precision image of one instance
  f32,                      \* time (seconds), phase and speed (2^-28 grid)
  f32Before,                \* progress before the last setAnimationSpeed,
                            \* or -1 when it has not been called
  \* App and its Flight objects
  flights,                  \* App.flights: the fields of each Flight
  guiParams,                \* App.params (numFlights, returnFlight,
                            \* hidePath, hidePlane, paneStyle)
  app,                      \* App: whether mergedCurves / mergedPanes, the
                            \* atlas texture and the promise of its load
                            \* are set, how many atlas builds are in
                            \* flight, whether continuations wait for the
                            \* load, and how many configurations were
                            \* pre-generated
  lastFrame,                \* what the last animation frame did, in order,
                            \* and the dirty flags of Curves at its draw call
  utilCall                  \* the arguments and results of the calls made
                            \* to the static functions of FlightUtils

packVars == << controlPointsPack1, controlPointsPack2, controlPointsPack3 >>

appearanceVars == << instanceColors, instanceScales, instanceElevations,
                     instanceUvTransforms, atlasInfo, useTexture >>

\* everything PlanesShader owns
planeVars == << time, returnModeEnabled, returnModePreferred, activePanes,
                animationParams, pendingReturnCompletion, packVars,
                landing, drawnOnReturn, appearanceVars >>

\* everything Curves owns
curveVars == << curveData, positions, colors, lineDistances, currentCurveCount,
                drawRange, needsPositionUpdate, needsColorUpdate,
                needsLineDistanceUpdate, attributeNeedsUpdate,
                uploadedDistances, dashSize, gapSize, material >>

f32Vars == << f32, f32Before >>

flightVars == << flights, guiParams, app, lastFrame, utilCall >>

vars == << planeVars, curveVars, lastCall, f32Vars, flightVars >>

\* ------------------------------------------------------------- helpers ----
Min(a, b) == IF a < b THEN a ELSE b
Max(a, b) == IF a > b THEN a ELSE b

Abs(x) == IF x < 0 THEN 0 - x ELSE x

RECURSIVE Pow2(_)
Pow2(n) == IF n = 0 THEN 1 ELSE 2 * Pow2(n - 1)

\* spacing of the single-precision numbers around the magnitude x, in grid
\* steps: 1 while x fits the significand, doubling with every further bit
\* first magnitude that no longer fits the significand
F32Limit == Pow2(F32Mantissa)

RECURSIVE F32Ulp(_)
F32Ulp(x) == IF x < F32Limit THEN 1 ELSE 2 * F32Ulp(x \div 2)

\* round to nearest, ties to the even significand
F32RoundMagnitude(x) ==
  LET q    == F32Ulp(x)
      r    == x % q
      base == x - r
  IN  IF 2 * r < q THEN base
      ELSE IF 2 * r > q THEN base + q
      ELSE IF (base \div q) % 2 = 0 THEN base ELSE base + q

\* the value a Float32Array element holds after x is stored into it
F32Round(x) ==
  IF x < 0 THEN 0 - F32RoundMagnitude(0 - x) ELSE F32RoundMagnitude(x)

\* JavaScript remainder: the sign of the result follows the dividend
JsRemainder(a, b) == IF a >= 0 THEN a % b ELSE 0 - ((0 - a) % b)

\* PlanesShader._wrapProgress
_wrapProgress(value, period) ==
  IF period <= 0 THEN 0
  ELSE LET result == JsRemainder(value, period)
       IN  IF result < 0 THEN result + period ELSE result

\* TypedArray.prototype.fill(value, start, end) on an array indexed 0..len-1:
\* a negative start or end counts from the end of the array
TypedArrayFill(arr, len, value, start, end) ==
  LET k     == IF start < 0 THEN Max(len + start, 0) ELSE Min(start, len)
      final == IF end < 0 THEN Max(len + end, 0) ELSE Min(end, len)
  IN  [i \in DOMAIN arr |-> IF i >= k /\ i < final THEN value ELSE arr[i]]

\* cycle of instance i at time t in the round-trip period, as the
\* reconciliation loop and setReturnMode compute it
CycleAt(params, t, i) ==
  _wrapProgress(t * params[i].speed + params[i].phase, 2 * Unit)

Cycle(i) == CycleAt(animationParams, time, i)

IsVisible(params, i) == ~(params[i].visible < 1)

\* instances the loops of setReturnMode and _reconcileReturnMode look at
Considered(params, count, i) == i < count /\ IsVisible(params, i)

\* GLSL mod(x, y) = x - y * floor(x / y)
GlslMod(x, y) == x - y * (x \div y)

\* panes vertex stage: cycle of instance i under the uniform returnMode
ShaderCycle(enabled, params, t, i) ==
  GlslMod(t * params[i].speed + params[i].phase,
          IF enabled THEN 2 * Unit ELSE Unit)

\* panes vertex stage: path parameter t of instance i
ShaderT(enabled, params, t, i) ==
  LET cycle == ShaderCycle(enabled, params, t, i)
  IN  IF enabled
      THEN IF cycle > Unit THEN 2 * Unit - cycle ELSE cycle
      ELSE cycle

\* instances a draw with these uniforms and attributes shows on a return leg
\* (travelDirection = -1), past the epsilon band around the turning point
DrawnOnReturnLeg(enabled, params, t) ==
  { i \in Panes : enabled /\ IsVisible(params, i)
                  /\ ShaderCycle(enabled, params, t, i) > Unit + Eps }

\* ------------------------------------------------------------------ Init --
\* no atlas metadata (this.atlasInfo = null)
NoAtlas == [columns |-> 0, rows |-> 0, count |-> 0, scaleX |-> 0, scaleY |-> 0]
\* UV coordinates are counted in UvOne-ths of the texture
UvOne == 12
\* a vertex colour is <<"rgb", 0xRRGGBB>> or <<"hsl", hue, saturation, lightness>>
Black == <<"rgb", 0>>
\* a vertex is the k-th sample of the spline through a control point list;
\* the zero vertex is sample 0 of the empty list
ZeroVertex == [curve |-> << >>, at |-> 0]
ZeroDistance == [curve |-> << >>, upTo |-> 0]
NullMetadata == [kind |-> "null", lat |-> 0, lng |-> 0]
UndefinedMetadata == [kind |-> "undefined", lat |-> 0, lng |-> 0]
Curves == 0 .. (MaxCurves - 1)
Vertices == 1 .. VerticesPerCurve
\* App.MAX_FLIGHTS, the capacity App gives both renderers
MAX_FLIGHTS == Min(MaxPanes, MaxCurves)
\* no animation frame has run yet
NoFrame == [steps |-> << >>, pendingAtStart |-> FALSE,
            needsPositionUpdate |-> FALSE, needsColorUpdate |-> FALSE]
\* a geolocation in degrees
Geo(lat, lng) == [lat |-> lat, lng |-> lng]
\* no function of FlightUtils has been called yet
NoCall == [op |-> "none", points |-> << >>,
           departure |-> Geo(0, 0), arrival |-> Geo(0, 0), radius |-> 3000,
           result |-> << >>, previous |-> << >>, calls |-> 0]
\* the instance whose stored numbers f32 holds, before any experiment
F32Idle == [time |-> 0, phase |-> 0, speed |-> 0]

InitPlanes ==
  /\ time = 0
  /\ returnModeEnabled \in BOOLEAN
  /\ returnModePreferred = returnModeEnabled
  /\ activePanes = 0
  /\ animationParams =
       [i \in Panes |-> [phase |-> InitialPhase(i), speed |-> DefaultSpeed,
                         tiltMode |-> 0, visible |-> 0]]
  /\ pendingReturnCompletion = [i \in Panes |-> 0]
  /\ controlPointsPack1 = [i \in Panes |-> <<0, 0, 0, 0>>]
  /\ controlPointsPack2 = [i \in Panes |-> <<0, 0, 0, 0>>]
  /\ controlPointsPack3 = [i \in Panes |-> <<0, 0, 0, 0>>]
  /\ landing = {}
  /\ drawnOnReturn = {}
  /\ instanceColors = [i \in Panes |-> White]
  /\ instanceScales = [i \in Panes |-> 0]
  /\ instanceElevations = [i \in Panes |-> 0]
  /\ instanceUvTransforms = [i \in Panes |-> <<0, 0, UvOne, UvOne>>]
  /\ atlasInfo = NoAtlas
  /\ useTexture = 0

InitCurves ==
  /\ curveData = [c \in Curves |->
                    [controlPoints |-> << >>,
                     color |-> [type |-> "number", value |-> White,
                                departureLat |-> 0, departureLng |-> 0],
                     metadata |-> NullMetadata, visible |-> FALSE]]
  /\ positions = [c \in Curves |-> [v \in Vertices |-> ZeroVertex]]
  /\ colors = [c \in Curves |-> [v \in Vertices |-> Black]]
  /\ lineDistances = [c \in Curves |-> [v \in Vertices |-> ZeroDistance]]
  /\ currentCurveCount = 0
  /\ drawRange = [start |-> 0, count |-> 0]
  /\ needsPositionUpdate = FALSE
  /\ needsColorUpdate = FALSE
  /\ needsLineDistanceUpdate = FALSE
  /\ attributeNeedsUpdate = {}
  /\ uploadedDistances = lineDistances
  /\ dashSize = 0
  /\ gapSize = 0
  /\ material = [type |-> "LineBasicMaterial", dashSize |-> 0, gapSize |-> 0]

\* App before initializeFlights has run: the defaults of App.params, no Flight
InitApp ==
  /\ flights = << >>
  /\ guiParams = [numFlights |-> MAX_FLIGHTS, returnFlight |-> TRUE,
                  hidePath |-> FALSE, hidePlane |-> FALSE, paneStyle |-> "SVG"]
  /\ app = [mergedRenderers |-> FALSE, svgTexture |-> FALSE,
            svgTexturePromise |-> FALSE, thenPending |-> FALSE,
            buildsInFlight |-> 0,
            preGeneratedConfigs |-> MAX_FLIGHTS]
  /\ lastFrame = NoFrame
  /\ utilCall = NoCall

Init ==
  /\ InitPlanes
  /\ InitCurves
  /\ lastCall = "accepted"
  /\ f32 = F32Idle
  /\ f32Before = 0 - 1
  /\ InitApp

\* instances of the set s that are still visible and still on a return leg
StillLanding(s, params, t) ==
  { i \in s : IsVisible(params, i) /\ CycleAt(params, t, i) > Unit }

\* --------------------------------------------------------- setReturnMode --
\* phase / pending flag of instance i after a disable request
DisablePhase(i) ==
  LET cycle == Cycle(i)
      phase == animationParams[i].phase
  IN  IF Considered(animationParams, activePanes, i)
         /\ ~(cycle > Unit + Eps) /\ cycle > Unit - Eps
      THEN _wrapProgress(phase - Unit, 2 * Unit)
      ELSE phase

DisablePending(i) ==
  IF Considered(animationParams, activePanes, i)
  THEN IF Cycle(i) > Unit + Eps THEN 1 ELSE 0
  ELSE pendingReturnCompletion[i]

\* pendingReturnCompletion.fill(0) of an enable request
ClearedPending_ActiveOnly ==
  [i \in Panes |-> IF i < activePanes THEN 0 ELSE pendingReturnCompletion[i]]

ClearedPending == [i \in Panes |-> 0]

SetReturnMode(enabled) ==
  /\ returnModePreferred' = enabled
  /\ IF enabled
     THEN /\ pendingReturnCompletion' = ClearedPending
          /\ returnModeEnabled' = TRUE
          /\ animationParams' = animationParams
          /\ landing' = landing
     ELSE /\ pendingReturnCompletion' = [i \in Panes |-> DisablePending(i)]
          /\ animationParams' =
               [i \in Panes |->
                  [animationParams[i] EXCEPT !.phase = DisablePhase(i)]]
          /\ returnModeEnabled' = returnModeEnabled
          /\ landing' =
               IF returnModeEnabled
               THEN StillLanding(
                      (IF returnModePreferred THEN {} ELSE landing) \cup
                        { i \in Panes :
                            Considered(animationParams, activePanes, i)
                            /\ Cycle(i) > Unit },
                      animationParams', time)
               ELSE {}
  /\ lastCall' = "accepted"
  /\ UNCHANGED << time, activePanes, packVars, drawnOnReturn >>
  /\ UNCHANGED << appearanceVars, curveVars, f32Vars, flightVars >>

\* ------------------------------------------------- update / reconcile -----
\* the drain is running: _reconcileReturnMode gets past its two early returns
Draining == ~returnModePreferred /\ returnModeEnabled

ReconcilePending(t, i) ==
  IF Considered(animationParams, activePanes, i)
     /\ pendingReturnCompletion[i] # 0
     /\ CycleAt(animationParams, t, i) <= Unit - Eps
  THEN 0
  ELSE pendingReturnCompletion[i]

\* the landing instance keeps its phase instead of restarting its forward leg
ReconcilePhase_NoRestart(t, i) ==
  LET cycle == CycleAt(animationParams, t, i)
      phase == animationParams[i].phase
  IN  IF ~Considered(animationParams, activePanes, i) THEN phase
      ELSE IF pendingReturnCompletion[i] # 0
           THEN phase
           ELSE IF cycle > Unit + Eps
                THEN _wrapProgress(phase - Unit, 2 * Unit)
                ELSE phase

\* the loop looks at every visible instance, whatever the active pane count
ReconcilePhase_BeyondCount(t, i) ==
  LET cycle == CycleAt(animationParams, t, i)
      phase == animationParams[i].phase
      speed == animationParams[i].speed
  IN  IF ~IsVisible(animationParams, i) THEN phase
      ELSE IF pendingReturnCompletion[i] # 0
           THEN IF cycle <= Unit - Eps
                THEN _wrapProgress((0 - t) * speed, 2 * Unit)
                ELSE phase
           ELSE IF cycle > Unit + Eps
                THEN _wrapProgress(phase - Unit, 2 * Unit)
                ELSE phase

ReconcilePhase(t, i) ==
  LET cycle == CycleAt(animationParams, t, i)
      phase == animationParams[i].phase
      speed == animationParams[i].speed
  IN  IF ~Considered(animationParams, activePanes, i) THEN phase
      ELSE IF pendingReturnCompletion[i] # 0
           THEN IF cycle <= Unit - Eps
                THEN _wrapProgress((0 - t) * speed, 2 * Unit)
                ELSE phase
           ELSE IF cycle > Unit + Eps
                THEN _wrapProgress(phase - Unit, 2 * Unit)
                ELSE phase

AnyPending(t) ==
  \E i \in Panes :
    /\ Considered(animationParams, activePanes, i)
    /\ pendingReturnCompletion[i] # 0
    /\ ~(CycleAt(animationParams, t, i) <= Unit - Eps)

_reconcileReturnMode(t) ==
  IF returnModePreferred
  THEN /\ returnModeEnabled' = TRUE
       /\ UNCHANGED << animationParams, pendingReturnCompletion >>
  ELSE IF ~returnModeEnabled
  THEN UNCHANGED << returnModeEnabled, animationParams, pendingReturnCompletion >>
  ELSE /\ pendingReturnCompletion' = [i \in Panes |-> ReconcilePending(t, i)]
       /\ animationParams' =
            [i \in Panes |->
               [animationParams[i] EXCEPT !.phase = ReconcilePhase(t, i)]]
       /\ returnModeEnabled' = AnyPending(t)

Update(deltaTime) ==
  /\ time + deltaTime <= MaxTime
  /\ time' = time + deltaTime
  /\ _reconcileReturnMode(time')
  /\ landing' = StillLanding(landing, animationParams', time')
  /\ drawnOnReturn' = DrawnOnReturnLeg(returnModeEnabled', animationParams', time')
  /\ lastCall' = "accepted"
  /\ UNCHANGED << returnModePreferred, activePanes, packVars >>
  /\ UNCHANGED << appearanceVars, curveVars, f32Vars, flightVars >>

\* update for an instance population whose cycles all repeat every `period`
\* seconds: the shared time is kept modulo that period, which leaves every
\* cycle the code computes from it unchanged
UpdateOnCircle(deltaTime, period) ==
  /\ time' = (time + deltaTime) % period
  /\ _reconcileReturnMode(time')
  /\ landing' = StillLanding(landing, animationParams', time')
  /\ drawnOnReturn' = DrawnOnReturnLeg(returnModeEnabled', animationParams', time')
  /\ lastCall' = "accepted"
  /\ UNCHANGED << returnModePreferred, activePanes, packVars >>
  /\ UNCHANGED << appearanceVars, curveVars, f32Vars, flightVars >>

\* ------------------------------------------------------ other mutators ----
InRange(index) == ~(index < 0 \/ index >= MaxPanes)

\* how a per-index mutator whose only check is the silent index guard ends
GuardedCall(index) == IF InRange(index) THEN "accepted" ELSE "silent"

\* hidePane that also zeroes the first pack of the instance
HidePane_ZeroesPack(index) ==
  /\ IF InRange(index)
     THEN /\ animationParams' = [animationParams EXCEPT ![index].visible = 0]
          /\ controlPointsPack1' =
               [controlPointsPack1 EXCEPT ![index] = <<0, 0, 0, 0>>]
     ELSE UNCHANGED << animationParams, controlPointsPack1 >>
  /\ landing' = StillLanding(landing, animationParams', time)
  /\ lastCall' = GuardedCall(index)
  /\ UNCHANGED << time, returnModeEnabled, returnModePreferred, activePanes,
                  pendingReturnCompletion, controlPointsPack2,
                  controlPointsPack3, drawnOnReturn >>
  /\ UNCHANGED << appearanceVars, curveVars, f32Vars, flightVars >>

HidePane(index) ==
  /\ IF InRange(index)
     THEN animationParams' = [animationParams EXCEPT ![index].visible = 0]
     ELSE animationParams' = animationParams
  /\ landing' = StillLanding(landing, animationParams', time)
  /\ lastCall' = GuardedCall(index)
  /\ UNCHANGED << time, returnModeEnabled, returnModePreferred, activePanes,
                  pendingReturnCompletion, packVars, drawnOnReturn >>
  /\ UNCHANGED << appearanceVars, curveVars, f32Vars, flightVars >>

\* setActivePaneCount that leaves the pending flags of dropped instances set
SetActivePaneCount_KeepsPending(count) ==
  /\ activePanes' = Min(count, MaxPanes)
  /\ lastCall' = "accepted"
  /\ UNCHANGED << time, returnModeEnabled, returnModePreferred,
                  animationParams, pendingReturnCompletion, packVars,
                  landing, drawnOnReturn >>
  /\ UNCHANGED << appearanceVars, curveVars, f32Vars, flightVars >>

SetActivePaneCount(count) ==
  LET newCount == Min(count, MaxPanes)
  IN  /\ pendingReturnCompletion' =
           IF newCount < activePanes
           THEN TypedArrayFill(pendingReturnCompletion, MaxPanes, 0,
                               newCount, activePanes)
           ELSE pendingReturnCompletion
      /\ activePanes' = newCount
      /\ lastCall' = "accepted"
      /\ UNCHANGED << time, returnModeEnabled, returnModePreferred,
                      animationParams, packVars, landing, drawnOnReturn >>
      /\ UNCHANGED << appearanceVars, curveVars, f32Vars, flightVars >>

\* the four elements written to each pack attribute; every store rounds to
\* single precision
Pack1(controlPoints) ==
  << F32Round(controlPoints[1][1]), F32Round(controlPoints[1][2]),
     F32Round(controlPoints[1][3]), F32Round(controlPoints[2][1]) >>

\* pack 2 with p1.y and p1.z exchanged
Pack2_ZBeforeY(controlPoints) ==
  << F32Round(controlPoints[2][3]), F32Round(controlPoints[2][2]),
     F32Round(controlPoints[3][1]), F32Round(controlPoints[3][2]) >>

Pack2(controlPoints) ==
  << F32Round(controlPoints[2][2]), F32Round(controlPoints[2][3]),
     F32Round(controlPoints[3][1]), F32Round(controlPoints[3][2]) >>

Pack3(controlPoints) ==
  << F32Round(controlPoints[3][3]), F32Round(controlPoints[4][1]),
     F32Round(controlPoints[4][2]), F32Round(controlPoints[4][3]) >>

SetCurveControlPoints(index, controlPoints) ==
  /\ IF InRange(index) /\ ~(Len(controlPoints) < 4)
     THEN /\ controlPointsPack1' =
               [controlPointsPack1 EXCEPT ![index] = Pack1(controlPoints)]
          /\ controlPointsPack2' =
               [controlPointsPack2 EXCEPT ![index] = Pack2(controlPoints)]
          /\ controlPointsPack3' =
               [controlPointsPack3 EXCEPT ![index] = Pack3(controlPoints)]
          /\ animationParams' = [animationParams EXCEPT ![index].visible = 1]
     ELSE UNCHANGED << packVars, animationParams >>
  /\ lastCall' = IF ~InRange(index) THEN "silent"
                 ELSE IF Len(controlPoints) < 4 THEN "warned"
                 ELSE "accepted"
  /\ UNCHANGED << time, returnModeEnabled, returnModePreferred, activePanes,
                  pendingReturnCompletion, landing, drawnOnReturn >>
  /\ UNCHANGED << appearanceVars, curveVars, f32Vars, flightVars >>

SetAnimationSpeed(index, speed) ==
  /\ IF InRange(index)
     THEN LET oldSpeed == animationParams[index].speed
              oldPhase == animationParams[index].phase
              period == IF returnModeEnabled THEN 2 * Unit ELSE Unit
              currentProgress ==
                _wrapProgress(time * oldSpeed + oldPhase, period)
              newPhase ==
                _wrapProgress(currentProgress - time * speed, period)
          IN  animationParams' =
                [animationParams EXCEPT ![index].speed = speed,
                                        ![index].phase = newPhase]
     ELSE animationParams' = animationParams
  /\ landing' = StillLanding(landing, animationParams', time)
  /\ lastCall' = GuardedCall(index)
  /\ UNCHANGED << time, returnModeEnabled, returnModePreferred, activePanes,
                  pendingReturnCompletion, packVars, drawnOnReturn >>
  /\ UNCHANGED << appearanceVars, curveVars, f32Vars, flightVars >>

\* ------------------------------------------------- appearance mutators --
\* frame of the mutators that write one appearance array
AppearanceFrame(index) ==
  /\ lastCall' = GuardedCall(index)
  /\ UNCHANGED << time, returnModeEnabled, returnModePreferred, activePanes,
                  animationParams, pendingReturnCompletion, packVars,
                  landing, drawnOnReturn, atlasInfo, useTexture >>
  /\ UNCHANGED << curveVars, f32Vars, flightVars >>

SetPaneColor(index, color) ==
  /\ instanceColors' = IF InRange(index)
                       THEN [instanceColors EXCEPT ![index] = color]
                       ELSE instanceColors
  /\ UNCHANGED << instanceScales, instanceElevations, instanceUvTransforms >>
  /\ AppearanceFrame(index)

SetPaneSize(index, size) ==
  /\ instanceScales' =
       IF InRange(index)
       THEN [instanceScales EXCEPT ![index] = (size * 100) \div BaseSize]
       ELSE instanceScales
  /\ UNCHANGED << instanceColors, instanceElevations, instanceUvTransforms >>
  /\ AppearanceFrame(index)

SetElevationOffset(index, offset) ==
  /\ instanceElevations' = IF InRange(index)
                           THEN [instanceElevations EXCEPT ![index] = offset]
                           ELSE instanceElevations
  /\ UNCHANGED << instanceColors, instanceScales, instanceUvTransforms >>
  /\ AppearanceFrame(index)

SetTiltMode(index, mode) ==
  /\ animationParams' =
       IF InRange(index)
       THEN [animationParams EXCEPT
               ![index].tiltMode = IF mode = "Tangent" THEN 1 ELSE 0]
       ELSE animationParams
  /\ lastCall' = GuardedCall(index)
  /\ UNCHANGED << time, returnModeEnabled, returnModePreferred, activePanes,
                  pendingReturnCompletion, packVars, landing, drawnOnReturn >>
  /\ UNCHANGED << appearanceVars, curveVars, f32Vars, flightVars >>

\* setTexture(texture, atlasInfo): hasTexture says whether texture is non-null,
\* info is the atlas metadata or NoAtlas for null; a missing scale counts as 1
SetTexture(hasTexture, info) ==
  /\ useTexture' = IF hasTexture THEN 1 ELSE 0
  /\ atlasInfo' = IF hasTexture /\ info # NoAtlas THEN info ELSE NoAtlas
  /\ lastCall' = "accepted"
  /\ UNCHANGED << time, returnModeEnabled, returnModePreferred, activePanes,
                  animationParams, pendingReturnCompletion, packVars,
                  landing, drawnOnReturn, instanceColors, instanceScales,
                  instanceElevations, instanceUvTransforms >>
  /\ UNCHANGED << curveVars, f32Vars, flightVars >>

\* a || b on numbers
OrElse(a, b) == IF a # 0 THEN a ELSE b

\* the UV rectangle without the second remainder that makes the slot of a
\* negative textureIndex non-negative
UvRectangle_NoNegativeWrap(textureIndex) ==
  IF atlasInfo # NoAtlas
  THEN LET columns    == Max(1, OrElse(atlasInfo.columns, 1))
           rows       == Max(1, OrElse(atlasInfo.rows, 1))
           totalSlots == columns * rows
           count      == Max(1, OrElse(atlasInfo.count, totalSlots))
           slot       == JsRemainder(textureIndex, count)
           safeSlot   == JsRemainder(slot, totalSlots)
           col        == JsRemainder(safeSlot, columns)
           row        == IF safeSlot < 0 THEN 0 - 1 ELSE safeSlot \div columns
           scaleX     == OrElse(atlasInfo.scaleX, UvOne \div columns)
           scaleY     == OrElse(atlasInfo.scaleY, UvOne \div rows)
       IN  << col * scaleX, row * scaleY, scaleX, scaleY >>
  ELSE << 0, 0, UvOne, UvOne >>

\* the UV rectangle setTextureIndex writes for textureIndex
UvRectangle(textureIndex) ==
  IF atlasInfo # NoAtlas
  THEN LET columns    == Max(1, OrElse(atlasInfo.columns, 1))
           rows       == Max(1, OrElse(atlasInfo.rows, 1))
           totalSlots == columns * rows
           count      == Max(1, OrElse(atlasInfo.count, totalSlots))
           slot       == JsRemainder(JsRemainder(textureIndex, count) + count,
                                     count)
           safeSlot   == slot % totalSlots
           col        == safeSlot % columns
           row        == safeSlot \div columns
           scaleX     == OrElse(atlasInfo.scaleX, UvOne \div columns)
           scaleY     == OrElse(atlasInfo.scaleY, UvOne \div rows)
       IN  << col * scaleX, row * scaleY, scaleX, scaleY >>
  ELSE << 0, 0, UvOne, UvOne >>

SetTextureIndex(index, textureIndex) ==
  /\ instanceUvTransforms' =
       IF InRange(index)
       THEN [instanceUvTransforms EXCEPT ![index] = UvRectangle(textureIndex)]
       ELSE instanceUvTransforms
  /\ UNCHANGED << instanceColors, instanceScales, instanceElevations >>
  /\ AppearanceFrame(index)

\* ---------------------------------------------------------------- Curves --
CurveInRange(curveIndex) == ~(curveIndex < 0 \/ curveIndex >= MaxCurves)

\* vertex v (1-based) of a slot belongs to segment (v - 1) \div 2 and is its
\* start or its end point
SegmentOf(v) == (v - 1) \div VerticesPerSegment
SampleOf(v) == SegmentOf(v) + ((v - 1) % VerticesPerSegment)

\* positions written by setCurve: the samples curve.getPoints(segmentsPerCurve)
SampledPositions(controlPoints) ==
  [v \in Vertices |-> [curve |-> controlPoints, at |-> SampleOf(v)]]

\* arc lengths written by setCurve: 0 at the first vertex, then the running sum
SampledDistances(controlPoints) ==
  [v \in Vertices |->
     IF SampleOf(v) = 0 THEN ZeroDistance
     ELSE [curve |-> controlPoints, upTo |-> SampleOf(v)]]

Clamp(x, lo, hi) == Max(lo, Min(hi, x))

\* Curves._computeGradientParams: << >> for null, else <<hue, saturation>>
\* with hue in 360ths and saturation in 300ths
_computeGradientParams(color, metadata) ==
  LET source == IF color.type = "gradient"
                THEN << color.departureLat, color.departureLng >>
                ELSE IF metadata.kind = "departure"
                THEN << metadata.lat, metadata.lng >>
                ELSE << >>
  IN  IF source = << >> THEN << >>
      ELSE LET lat == source[1]
               lng == source[2]
               hue == JsRemainder(lng + 180, 360)
               latFactor == Min(Abs(lat), 90)
               saturation == Clamp(180 + (90 - latFactor), 0, 300)
           IN  << hue, saturation >>

\* Curves._resolveSolidColor
_resolveSolidColor(color) ==
  IF color.type = "number" THEN color.value ELSE FallbackColor

\* Curves._getColorForProgress at progress k / segmentsPerCurve; lightness in
\* (100 * segmentsPerCurve)-ths
_getColorForProgress(params, k) ==
  LET clampedProgress == Clamp(k, 0, SegmentsPerCurve)
      lightness == Clamp(35 * SegmentsPerCurve + 40 * clampedProgress,
                         0, 100 * SegmentsPerCurve)
  IN  << "hsl", params[1], params[2], lightness >>

\* Curves._applyColorToCurve on the curve data `data` (after the caller's
\* writes): the colour buffer and the colour dirty flag
AppliedColors(data, curveIndex) ==
  IF ~CurveInRange(curveIndex) \/ ~data[curveIndex].visible
  THEN colors
  ELSE LET gradientParams == _computeGradientParams(data[curveIndex].color,
                                                    data[curveIndex].metadata)
       IN  [colors EXCEPT ![curveIndex] =
              [v \in Vertices |->
                 IF gradientParams # << >>
                 THEN _getColorForProgress(gradientParams, SampleOf(v))
                 ELSE << "rgb", _resolveSolidColor(data[curveIndex].color) >>]]

AppliedColorFlag(data, curveIndex) ==
  IF ~CurveInRange(curveIndex) \/ ~data[curveIndex].visible
  THEN needsColorUpdate
  ELSE TRUE

\* metadata ?? null
OrNull(metadata) ==
  IF metadata.kind = "undefined" THEN NullMetadata ELSE metadata

SetCurve(curveIndex, controlPoints, color, metadata) ==
  /\ IF ~CurveInRange(curveIndex) \/ Len(controlPoints) < 2
     THEN /\ lastCall' = "warned"
          /\ UNCHANGED curveVars
     ELSE /\ lastCall' = "accepted"
          /\ curveData' = [curveData EXCEPT ![curveIndex] =
               [controlPoints |-> controlPoints, color |-> color,
                metadata |-> OrNull(metadata), visible |-> TRUE]]
          /\ positions' = [positions EXCEPT
                             ![curveIndex] = SampledPositions(controlPoints)]
          /\ lineDistances' = [lineDistances EXCEPT
                                 ![curveIndex] = SampledDistances(controlPoints)]
          /\ colors' = AppliedColors(curveData', curveIndex)
          /\ needsColorUpdate' = AppliedColorFlag(curveData', curveIndex)
          /\ needsPositionUpdate' = TRUE
          /\ needsLineDistanceUpdate' = TRUE
          /\ IF curveIndex >= currentCurveCount
             THEN /\ currentCurveCount' = curveIndex + 1
                  /\ drawRange' = [start |-> 0,
                                   count |-> currentCurveCount' * VerticesPerCurve]
             ELSE UNCHANGED << currentCurveCount, drawRange >>
          /\ UNCHANGED << attributeNeedsUpdate, uploadedDistances,
                          dashSize, gapSize, material >>
  /\ UNCHANGED << planeVars, f32Vars, flightVars >>

SetCurveColor(curveIndex, color, metadata) ==
  /\ IF ~CurveInRange(curveIndex)
     THEN /\ lastCall' = "silent"
          /\ UNCHANGED << curveData, colors, needsColorUpdate >>
     ELSE /\ lastCall' = "accepted"
          /\ IF ~curveData[curveIndex].visible
             THEN UNCHANGED << curveData, colors, needsColorUpdate >>
             ELSE /\ curveData' = [curveData EXCEPT
                       ![curveIndex].color = color,
                       ![curveIndex].metadata =
                          IF metadata.kind # "undefined"
                          THEN OrNull(metadata)
                          ELSE curveData[curveIndex].metadata]
                  /\ colors' = AppliedColors(curveData', curveIndex)
                  /\ needsColorUpdate' = AppliedColorFlag(curveData', curveIndex)
  /\ UNCHANGED << positions, lineDistances, currentCurveCount, drawRange,
                  needsPositionUpdate, needsLineDistanceUpdate,
                  attributeNeedsUpdate, uploadedDistances,
                  dashSize, gapSize, material >>
  /\ UNCHANGED << planeVars, f32Vars, flightVars >>

HideCurve(curveIndex) ==
  /\ IF ~CurveInRange(curveIndex)
     THEN /\ lastCall' = "silent"
          /\ UNCHANGED << curveData, positions, lineDistances,
                          needsPositionUpdate, needsLineDistanceUpdate >>
     ELSE /\ lastCall' = "accepted"
          /\ curveData' = [curveData EXCEPT ![curveIndex].visible = FALSE]
          /\ positions' = [positions EXCEPT
                             ![curveIndex] = [v \in Vertices |-> ZeroVertex]]
          /\ lineDistances' = [lineDistances EXCEPT
                                 ![curveIndex] = [v \in Vertices |-> ZeroDistance]]
          /\ needsPositionUpdate' = TRUE
          /\ needsLineDistanceUpdate' = TRUE
  /\ UNCHANGED << colors, currentCurveCount, drawRange, needsColorUpdate,
                  attributeNeedsUpdate, uploadedDistances,
                  dashSize, gapSize, material >>
  /\ UNCHANGED << planeVars, f32Vars, flightVars >>

SetVisibleCurveCount(count) ==
  /\ currentCurveCount' = Min(count, MaxCurves)
  /\ drawRange' = [start |-> 0, count |-> currentCurveCount' * VerticesPerCurve]
  /\ lastCall' = "accepted"
  /\ UNCHANGED << curveData, positions, colors, lineDistances,
                  needsPositionUpdate, needsColorUpdate,
                  needsLineDistanceUpdate, attributeNeedsUpdate,
                  uploadedDistances, dashSize, gapSize, material >>
  /\ UNCHANGED << planeVars, f32Vars, flightVars >>

ApplyUpdates ==
  /\ needsPositionUpdate' = FALSE
  /\ needsColorUpdate' = FALSE
  /\ needsLineDistanceUpdate' =
       IF dashSize > 0 /\ needsLineDistanceUpdate THEN FALSE
       ELSE IF dashSize = 0 THEN FALSE
       ELSE needsLineDistanceUpdate
  /\ attributeNeedsUpdate' =
       attributeNeedsUpdate
         \cup (IF needsPositionUpdate THEN {"position"} ELSE {})
         \cup (IF needsColorUpdate THEN {"color"} ELSE {})
         \cup (IF dashSize > 0 /\ needsLineDistanceUpdate
               THEN {"lineDistance"} ELSE {})
  /\ uploadedDistances' =
       IF dashSize > 0 /\ needsLineDistanceUpdate
       THEN lineDistances ELSE uploadedDistances
  /\ lastCall' = "accepted"
  /\ UNCHANGED << curveData, positions, colors, lineDistances,
                  currentCurveCount, drawRange, dashSize, gapSize, material >>
  /\ UNCHANGED << planeVars, f32Vars, flightVars >>

\* Curves.createMaterial for a dash pattern; lengths count in steps of 1e-4
CreateMaterial(dash, gap) ==
  IF dash > 0
  THEN [type |-> "LineDashedMaterial", dashSize |-> dash,
        gapSize |-> Max(gap, 1)]
  ELSE [type |-> "LineBasicMaterial", dashSize |-> 0, gapSize |-> 0]

\* setDashPattern that swaps the material without asking for a re-upload
SetDashPattern_NoReupload(dash, gap) ==
  LET nextDash == Max(0, dash)
      nextGap  == Max(0, gap)
  IN  /\ IF dashSize = nextDash /\ gapSize = nextGap
         THEN UNCHANGED << dashSize, gapSize, material, needsLineDistanceUpdate >>
         ELSE /\ dashSize' = nextDash
              /\ gapSize' = nextGap
              /\ material' = CreateMaterial(nextDash, nextGap)
              /\ needsLineDistanceUpdate' = needsLineDistanceUpdate
      /\ lastCall' = "accepted"
      /\ UNCHANGED << curveData, positions, colors, lineDistances,
                      currentCurveCount, drawRange, needsPositionUpdate,
                      needsColorUpdate, attributeNeedsUpdate,
                      uploadedDistances >>
      /\ UNCHANGED << planeVars, f32Vars, flightVars >>

SetDashPattern(dash, gap) ==
  LET nextDash == Max(0, dash)
      nextGap  == Max(0, gap)
  IN  /\ IF dashSize = nextDash /\ gapSize = nextGap
         THEN UNCHANGED << dashSize, gapSize, material, needsLineDistanceUpdate >>
         ELSE /\ dashSize' = nextDash
              /\ gapSize' = nextGap
              /\ material' = CreateMaterial(nextDash, nextGap)
              /\ needsLineDistanceUpdate' =
                   IF nextDash > 0 THEN TRUE ELSE needsLineDistanceUpdate
      /\ lastCall' = "accepted"
      /\ UNCHANGED << curveData, positions, colors, lineDistances,
                      currentCurveCount, drawRange, needsPositionUpdate,
                      needsColorUpdate, attributeNeedsUpdate,
                      uploadedDistances >>
      /\ UNCHANGED << planeVars, f32Vars, flightVars >>

\* ------------------------------------- setAnimationSpeed, single precision --
\* 1.0 on the 2^-28 grid
F32One == Pow2(28)
\* Math.fround(0.1) = 13421773 * 2^-27, the speed initialize() stores
F32Tenth == 2 * 13421773

\* (t * s) mod m by doubling, every intermediate value below 2 * m
RECURSIVE TimesMod(_, _, _)
TimesMod(t, s, m) ==
  IF t = 0 THEN 0
  ELSE LET twice == (2 * TimesMod(t \div 2, s, m)) % m
       IN  IF t % 2 = 1 THEN (twice + (s % m)) % m ELSE twice

F32Period == IF returnModeEnabled THEN 2 * F32One ELSE F32One

\* progress = (time * speed + phase) mod period from the stored numbers; the
\* product is reduced modulo the period first, which leaves the remainder the
\* same
F32Progress(image) ==
  _wrapProgress(TimesMod(image.time, image.speed, F32Period) + image.phase,
                F32Period)

\* setAnimationSpeed(index, speed) as it acts on the stored numbers of one
\* instance: speed is the double handed in, the two stores round it and the
\* phase derived from it to single precision
SetAnimationSpeedF32(speed) ==
  /\ f32Before = 0 - 1
  /\ LET period == F32Period
         currentProgress == F32Progress(f32)
         newPhase ==
           _wrapProgress(currentProgress - TimesMod(f32.time, speed, period),
                         period)
     IN  /\ f32' = [f32 EXCEPT !.speed = F32Round(speed),
                               !.phase = F32Round(newPhase)]
         /\ f32Before' = currentProgress
  /\ lastCall' = "accepted"
  /\ UNCHANGED << planeVars, curveVars, flightVars >>

\* ======================================= the renderers as values ==========
\* A caller that makes several calls in one handler (Flight, App and the
\* managers) needs each call as a function from the renderer's state to its
\* state after the call.  planes is the state of a PlanesShader, curves of a
\* Curves; the functions below are the methods, named as in the source.
PlanesNow ==
  [time |-> time, returnModeEnabled |-> returnModeEnabled,
   returnModePreferred |-> returnModePreferred, activePanes |-> activePanes,
   animationParams |-> animationParams,
   pendingReturnCompletion |-> pendingReturnCompletion,
   controlPointsPack1 |-> controlPointsPack1,
   controlPointsPack2 |-> controlPointsPack2,
   controlPointsPack3 |-> controlPointsPack3,
   landing |-> landing, drawnOnReturn |-> drawnOnReturn,
   instanceColors |-> instanceColors, instanceScales |-> instanceScales,
   instanceElevations |-> instanceElevations,
   instanceUvTransforms |-> instanceUvTransforms,
   atlasInfo |-> atlasInfo, useTexture |-> useTexture]

PlanesBecome(planes) ==
  /\ time' = planes.time
  /\ returnModeEnabled' = planes.returnModeEnabled
  /\ returnModePreferred' = planes.returnModePreferred
  /\ activePanes' = planes.activePanes
  /\ animationParams' = planes.animationParams
  /\ pendingReturnCompletion' = planes.pendingReturnCompletion
  /\ controlPointsPack1' = planes.controlPointsPack1
  /\ controlPointsPack2' = planes.controlPointsPack2
  /\ controlPointsPack3' = planes.controlPointsPack3
  /\ landing' = planes.landing
  /\ drawnOnReturn' = planes.drawnOnReturn
  /\ instanceColors' = planes.instanceColors
  /\ instanceScales' = planes.instanceScales
  /\ instanceElevations' = planes.instanceElevations
  /\ instanceUvTransforms' = planes.instanceUvTransforms
  /\ atlasInfo' = planes.atlasInfo
  /\ useTexture' = planes.useTexture

\* new PlanesShader(scene, { returnMode }): initialize() leaves every
\* instance hidden with a random phase and the default speed
NewPlanesShader(returnMode) ==
  [time |-> 0, returnModeEnabled |-> returnMode,
   returnModePreferred |-> returnMode, activePanes |-> 0,
   animationParams |->
     [i \in Panes |-> [phase |-> InitialPhase(i), speed |-> DefaultSpeed,
                       tiltMode |-> 0, visible |-> 0]],
   pendingReturnCompletion |-> [i \in Panes |-> 0],
   controlPointsPack1 |-> [i \in Panes |-> <<0, 0, 0, 0>>],
   controlPointsPack2 |-> [i \in Panes |-> <<0, 0, 0, 0>>],
   controlPointsPack3 |-> [i \in Panes |-> <<0, 0, 0, 0>>],
   landing |-> {}, drawnOnReturn |-> {},
   instanceColors |-> [i \in Panes |-> White],
   instanceScales |-> [i \in Panes |-> 0],
   instanceElevations |-> [i \in Panes |-> 0],
   instanceUvTransforms |-> [i \in Panes |-> <<0, 0, UvOne, UvOne>>],
   atlasInfo |-> NoAtlas, useTexture |-> 0]

\* the landing set after a call that left the shared time alone
Landed(planes) ==
  [planes EXCEPT
     !.landing = StillLanding(planes.landing, planes.animationParams,
                              planes.time)]

setCurveControlPoints(planes, index, controlPoints) ==
  IF InRange(index) /\ ~(Len(controlPoints) < 4)
  THEN [planes EXCEPT
          !.controlPointsPack1[index] = Pack1(controlPoints),
          !.controlPointsPack2[index] = Pack2(controlPoints),
          !.controlPointsPack3[index] = Pack3(controlPoints),
          !.animationParams[index].visible = 1]
  ELSE planes

setPaneColor(planes, index, color) ==
  IF InRange(index)
  THEN [planes EXCEPT !.instanceColors[index] = color]
  ELSE planes

setPaneSize(planes, index, size) ==
  IF InRange(index)
  THEN [planes EXCEPT !.instanceScales[index] = (size * 100) \div BaseSize]
  ELSE planes

setElevationOffset(planes, index, offset) ==
  IF InRange(index)
  THEN [planes EXCEPT !.instanceElevations[index] = offset]
  ELSE planes

setAnimationSpeed(planes, index, speed) ==
  IF InRange(index)
  THEN LET oldSpeed == planes.animationParams[index].speed
           oldPhase == planes.animationParams[index].phase
           period == IF planes.returnModeEnabled THEN 2 * Unit ELSE Unit
           currentProgress ==
             _wrapProgress(planes.time * oldSpeed + oldPhase, period)
           newPhase ==
             _wrapProgress(currentProgress - planes.time * speed, period)
       IN  Landed([planes EXCEPT !.animationParams[index].speed = speed,
                                 !.animationParams[index].phase = newPhase])
  ELSE Landed(planes)

setTiltMode(planes, index, mode) ==
  IF InRange(index)
  THEN [planes EXCEPT !.animationParams[index].tiltMode =
                         IF mode = "Tangent" THEN 1 ELSE 0]
  ELSE planes

setTexture(planes, hasTexture, info) ==
  [planes EXCEPT
     !.useTexture = IF hasTexture THEN 1 ELSE 0,
     !.atlasInfo = IF hasTexture /\ info # NoAtlas THEN info ELSE NoAtlas]

\* the UV rectangle of textureIndex under the atlas metadata atlas
UvRectangleIn(atlas, textureIndex) ==
  IF atlas # NoAtlas
  THEN LET columns    == Max(1, OrElse(atlas.columns, 1))
           rows       == Max(1, OrElse(atlas.rows, 1))
           totalSlots == columns * rows
           count      == Max(1, OrElse(atlas.count, totalSlots))
           slot       == JsRemainder(JsRemainder(textureIndex, count) + count,
                                     count)
           safeSlot   == slot % totalSlots
           col        == safeSlot % columns
           row        == safeSlot \div columns
           scaleX     == OrElse(atlas.scaleX, UvOne \div columns)
           scaleY     == OrElse(atlas.scaleY, UvOne \div rows)
       IN  << col * scaleX, row * scaleY, scaleX, scaleY >>
  ELSE << 0, 0, UvOne, UvOne >>

setTextureIndex(planes, index, textureIndex) ==
  IF InRange(index)
  THEN [planes EXCEPT
          !.instanceUvTransforms[index] =
             UvRectangleIn(planes.atlasInfo, textureIndex)]
  ELSE planes

hidePane(planes, index) ==
  IF InRange(index)
  THEN Landed([planes EXCEPT !.animationParams[index].visible = 0])
  ELSE Landed(planes)

setActivePaneCount(planes, count) ==
  LET newCount == Min(count, MaxPanes)
  IN  [planes EXCEPT
         !.pendingReturnCompletion =
            IF newCount < planes.activePanes
            THEN TypedArrayFill(planes.pendingReturnCompletion, MaxPanes, 0,
                                newCount, planes.activePanes)
            ELSE planes.pendingReturnCompletion,
         !.activePanes = newCount]

setReturnMode(planes, enabled) ==
  LET params == planes.animationParams
      cycle(i) == CycleAt(params, planes.time, i)
      considered(i) == Considered(params, planes.activePanes, i)
      rewound ==
        [i \in Panes |->
           [params[i] EXCEPT !.phase =
              IF considered(i)
                 /\ ~(cycle(i) > Unit + Eps) /\ cycle(i) > Unit - Eps
              THEN _wrapProgress(params[i].phase - Unit, 2 * Unit)
              ELSE params[i].phase]]
  IN  IF enabled
      THEN [planes EXCEPT !.returnModePreferred = TRUE,
                          !.pendingReturnCompletion = [i \in Panes |-> 0],
                          !.returnModeEnabled = TRUE]
      ELSE [planes EXCEPT
              !.returnModePreferred = FALSE,
              !.pendingReturnCompletion =
                 [i \in Panes |->
                    IF considered(i)
                    THEN IF cycle(i) > Unit + Eps THEN 1 ELSE 0
                    ELSE planes.pendingReturnCompletion[i]],
              !.animationParams = rewound,
              !.landing =
                 IF planes.returnModeEnabled
                 THEN StillLanding(
                        (IF planes.returnModePreferred
                         THEN {} ELSE planes.landing) \cup
                          { i \in Panes : considered(i) /\ cycle(i) > Unit },
                        rewound, planes.time)
                 ELSE {}]

\* PlanesShader.update: the shared time advances, then _reconcileReturnMode
update(planes, deltaTime) ==
  LET t == planes.time + deltaTime
      params == planes.animationParams
      pending == planes.pendingReturnCompletion
      cycle(i) == CycleAt(params, t, i)
      considered(i) == Considered(params, planes.activePanes, i)
      draining == ~planes.returnModePreferred /\ planes.returnModeEnabled
      landed(i) == considered(i) /\ pending[i] # 0 /\ cycle(i) <= Unit - Eps
      nextParams ==
        IF ~draining THEN params
        ELSE [i \in Panes |->
                [params[i] EXCEPT !.phase =
                   IF ~considered(i) THEN params[i].phase
                   ELSE IF pending[i] # 0
                        THEN IF cycle(i) <= Unit - Eps
                             THEN _wrapProgress((0 - t) * params[i].speed,
                                                2 * Unit)
                             ELSE params[i].phase
                        ELSE IF cycle(i) > Unit + Eps
                             THEN _wrapProgress(params[i].phase - Unit,
                                                2 * Unit)
                             ELSE params[i].phase]]
      nextEnabled ==
        IF planes.returnModePreferred THEN TRUE
        ELSE IF ~planes.returnModeEnabled THEN FALSE
        ELSE \E i \in Panes :
               considered(i) /\ pending[i] # 0 /\ ~(cycle(i) <= Unit - Eps)
  IN  [planes EXCEPT
         !.time = t,
         !.pendingReturnCompletion =
            IF ~draining THEN pending
            ELSE [i \in Panes |-> IF landed(i) THEN 0 ELSE pending[i]],
         !.animationParams = nextParams,
         !.returnModeEnabled = nextEnabled,
         !.landing = StillLanding(planes.landing, nextParams, t),
         !.drawnOnReturn = DrawnOnReturnLeg(nextEnabled, nextParams, t)]

CurvesNow ==
  [curveData |-> curveData, positions |-> positions, colors |-> colors,
   lineDistances |-> lineDistances, currentCurveCount |-> currentCurveCount,
   drawRange |-> drawRange, needsPositionUpdate |-> needsPositionUpdate,
   needsColorUpdate |-> needsColorUpdate,
   needsLineDistanceUpdate |-> needsLineDistanceUpdate,
   attributeNeedsUpdate |-> attributeNeedsUpdate,
   uploadedDistances |-> uploadedDistances,
   dashSize |-> dashSize, gapSize |-> gapSize, material |-> material]

CurvesBecome(curves) ==
  /\ curveData' = curves.curveData
  /\ positions' = curves.positions
  /\ colors' = curves.colors
  /\ lineDistances' = curves.lineDistances
  /\ currentCurveCount' = curves.currentCurveCount
  /\ drawRange' = curves.drawRange
  /\ needsPositionUpdate' = curves.needsPositionUpdate
  /\ needsColorUpdate' = curves.needsColorUpdate
  /\ needsLineDistanceUpdate' = curves.needsLineDistanceUpdate
  /\ attributeNeedsUpdate' = curves.attributeNeedsUpdate
  /\ uploadedDistances' = curves.uploadedDistances
  /\ dashSize' = curves.dashSize
  /\ gapSize' = curves.gapSize
  /\ material' = curves.material

\* new Curves(scene, { dashSize, gapSize }): every slot hidden, nothing drawn
NewCurves(dash, gap) ==
  [curveData |->
     [c \in Curves |->
        [controlPoints |-> << >>,
         color |-> [type |-> "number", value |-> White,
                    departureLat |-> 0, departureLng |-> 0],
         metadata |-> NullMetadata, visible |-> FALSE]],
   positions |-> [c \in Curves |-> [v \in Vertices |-> ZeroVertex]],
   colors |-> [c \in Curves |-> [v \in Vertices |-> Black]],
   lineDistances |-> [c \in Curves |-> [v \in Vertices |-> ZeroDistance]],
   currentCurveCount |-> 0,
   drawRange |-> [start |-> 0, count |-> 0],
   needsPositionUpdate |-> FALSE, needsColorUpdate |-> FALSE,
   needsLineDistanceUpdate |-> FALSE, attributeNeedsUpdate |-> {},
   uploadedDistances |-> [c \in Curves |-> [v \in Vertices |-> ZeroDistance]],
   dashSize |-> dash, gapSize |-> gap, material |-> CreateMaterial(dash, gap)]

_applyColorToCurve(curves, curveIndex) ==
  IF ~CurveInRange(curveIndex) \/ ~curves.curveData[curveIndex].visible
  THEN curves
  ELSE LET data == curves.curveData[curveIndex]
           gradientParams == _computeGradientParams(data.color, data.metadata)
       IN  [curves EXCEPT
              !.colors[curveIndex] =
                 [v \in Vertices |->
                    IF gradientParams # << >>
                    THEN _getColorForProgress(gradientParams, SampleOf(v))
                    ELSE << "rgb", _resolveSolidColor(data.color) >>],
              !.needsColorUpdate = TRUE]

setCurve(curves, curveIndex, controlPoints, color, metadata) ==
  IF ~CurveInRange(curveIndex) \/ Len(controlPoints) < 2
  THEN curves
  ELSE LET count == IF curveIndex >= curves.currentCurveCount
                    THEN curveIndex + 1
                    ELSE curves.currentCurveCount
           written ==
             [curves EXCEPT
                !.curveData[curveIndex] =
                   [controlPoints |-> controlPoints, color |-> color,
                    metadata |-> OrNull(metadata), visible |-> TRUE],
                !.positions[curveIndex] = SampledPositions(controlPoints),
                !.lineDistances[curveIndex] = SampledDistances(controlPoints)]
       IN  [_applyColorToCurve(written, curveIndex) EXCEPT
              !.needsPositionUpdate = TRUE,
              !.needsLineDistanceUpdate = TRUE,
              !.currentCurveCount = count,
              !.drawRange =
                 IF curveIndex >= curves.currentCurveCount
                 THEN [start |-> 0, count |-> count * VerticesPerCurve]
                 ELSE curves.drawRange]

setCurveColor(curves, curveIndex, color, metadata) ==
  IF ~CurveInRange(curveIndex) \/ ~curves.curveData[curveIndex].visible
  THEN curves
  ELSE _applyColorToCurve(
         [curves EXCEPT
            !.curveData[curveIndex].color = color,
            !.curveData[curveIndex].metadata =
               IF metadata.kind # "undefined"
               THEN OrNull(metadata)
               ELSE curves.curveData[curveIndex].metadata],
         curveIndex)

hideCurve(curves, curveIndex) ==
  IF ~CurveInRange(curveIndex)
  THEN curves
  ELSE [curves EXCEPT
          !.curveData[curveIndex].visible = FALSE,
          !.positions[curveIndex] = [v \in Vertices |-> ZeroVertex],
          !.lineDistances[curveIndex] = [v \in Vertices |-> ZeroDistance],
          !.needsPositionUpdate = TRUE,
          !.needsLineDistanceUpdate = TRUE]

setVisibleCurveCount(curves, count) ==
  LET newCount == Min(count, MaxCurves)
  IN  [curves EXCEPT
         !.currentCurveCount = newCount,
         !.drawRange = [start |-> 0, count |-> newCount * VerticesPerCurve]]

applyUpdates(curves) ==
  [curves EXCEPT
     !.needsPositionUpdate = FALSE,
     !.needsColorUpdate = FALSE,
     !.needsLineDistanceUpdate =
        IF curves.dashSize > 0 /\ curves.needsLineDistanceUpdate THEN FALSE
        ELSE IF curves.dashSize = 0 THEN FALSE
        ELSE curves.needsLineDistanceUpdate,
     !.attributeNeedsUpdate =
        curves.attributeNeedsUpdate
          \cup (IF curves.needsPositionUpdate THEN {"position"} ELSE {})
          \cup (IF curves.needsColorUpdate THEN {"color"} ELSE {})
          \cup (IF curves.dashSize > 0 /\ curves.needsLineDistanceUpdate
                THEN {"lineDistance"} ELSE {}),
     !.uploadedDistances =
        IF curves.dashSize > 0 /\ curves.needsLineDistanceUpdate
        THEN curves.lineDistances ELSE curves.uploadedDistances]

setDashPattern(curves, dash, gap) ==
  LET nextDash == Max(0, dash)
      nextGap  == Max(0, gap)
  IN  IF curves.dashSize = nextDash /\ curves.gapSize = nextGap
      THEN curves
      ELSE [curves EXCEPT
              !.dashSize = nextDash,
              !.gapSize = nextGap,
              !.material = CreateMaterial(nextDash, nextGap),
              !.needsLineDistanceUpdate =
                 IF nextDash > 0 THEN TRUE ELSE curves.needsLineDistanceUpdate]

\* ================================================================ Flight ==
\* Flight speeds and elapsed times count in Unit-ths like the instance
\* parameters; a deltaTime handed to Flight.update counts in TicksPerSecond-ths
\* of a second.
TicksPerSecond == 12

\* a colour handed in as a number
NumberColor(value) ==
  [type |-> "number", value |-> value, departureLat |-> 0, departureLng |-> 0]

\* new Flight(scene, options).  mergedCurves says whether options.mergedCurves
\* is set; mergedPanes is "PlanesShader", "cpu" (a MergedPanesRenderer without
\* setCurveControlPoints) or "null"; an index of -1 is an omitted index
NewFlight(options) ==
  [mergedCurves |-> options.mergedCurves,
   curveIndex |-> options.curveIndex,
   mergedPanes |-> options.mergedPanes,
   paneIndex |-> options.paneIndex,
   controlPoints |-> options.controlPoints,
   color |-> IF options.curveColor = NumberColor(0)
             THEN NumberColor(FallbackColor) ELSE options.curveColor,
   paneSize |-> OrElse(options.paneSize, 100),
   paneColor |-> OrElse(options.paneColor, 16737894),
   elevationOffset |-> options.elevationOffset,
   textureIndex |-> options.paneTextureIndex,
   animationSpeed |-> OrElse(options.animationSpeed, DefaultSpeed),
   animationSpeedTarget |-> OrElse(options.animationSpeed, DefaultSpeed),
   tiltMode |-> IF options.tiltMode = "" THEN "Perpendicular"
                ELSE options.tiltMode,
   returnFlight |-> options.returnFlight,
   flightData |-> OrNull(options.flightData),
   animationTime |-> 0,
   cachedCurve |-> FALSE,
   isShaderBasedPanes |-> FALSE]

\* the point at parameter t = per1000 / 1000 of the CatmullRomCurve3 through
\* two points, which is the straight segment between them
SegmentPoint(a, b, per1000) ==
  [c \in 1 .. 3 |-> a[c] + ((b[c] - a[c]) * per1000) \div 1000]

\* Flight.resampleTo4Points, for lists of 4 points and of 2 points
resampleTo4Points(controlPoints) ==
  IF Len(controlPoints) = 4 THEN controlPoints
  ELSE LET a == controlPoints[1]
           b == controlPoints[Len(controlPoints)]
       IN  << SegmentPoint(a, b, 0), SegmentPoint(a, b, 333),
              SegmentPoint(a, b, 666), SegmentPoint(a, b, 1000) >>

\* the calls of a Flight reach a renderer only when the Flight holds it
HasCurveSlot(f) == f.mergedCurves /\ f.curveIndex >= 0
HasPaneSlot(f) == f.mergedPanes # "null" /\ f.paneIndex >= 0
HasShaderSlot(f) ==
  f.isShaderBasedPanes /\ f.mergedPanes = "PlanesShader" /\ f.paneIndex >= 0

\* A world is the Flight list with the two renderers; a method of the k-th
\* Flight maps the world before the call to the world after it.
WorldNow == [flights |-> flights, curves |-> CurvesNow, planes |-> PlanesNow]

WorldBecomes(world) ==
  /\ flights' = world.flights
  /\ CurvesBecome(world.curves)
  /\ PlanesBecome(world.planes)

\* this.mergedPanes.<method>(...) of a Flight whose renderer is a PlanesShader
OnPlanesShader(f, planes, after) ==
  IF f.mergedPanes = "PlanesShader" THEN after ELSE planes

Flight_applyPaneTextureIndex(world, k) ==
  LET f == world.flights[k]
  IN  IF ~f.isShaderBasedPanes \/ f.mergedPanes = "null" \/ f.paneIndex < 0
      THEN world
      ELSE [world EXCEPT
              !.planes = OnPlanesShader(f, @,
                           setTextureIndex(@, f.paneIndex, f.textureIndex))]

Flight_create(world, k) ==
  LET f == world.flights[k]
      shader == f.mergedPanes = "PlanesShader"
      fourPoints == resampleTo4Points(f.controlPoints)
      p1 == setCurveControlPoints(world.planes, f.paneIndex, fourPoints)
      p2 == setPaneColor(p1, f.paneIndex, f.paneColor)
      p3 == setPaneSize(p2, f.paneIndex, f.paneSize)
      p4 == setElevationOffset(p3, f.paneIndex, f.elevationOffset)
      p5 == setAnimationSpeed(p4, f.paneIndex, f.animationSpeed)
      p6 == setTiltMode(p5, f.paneIndex, f.tiltMode)
      registered ==
        [world EXCEPT
           !.curves = IF HasCurveSlot(f)
                      THEN setCurve(@, f.curveIndex, f.controlPoints,
                                    f.color, f.flightData)
                      ELSE @,
           !.flights[k].cachedCurve = IF HasCurveSlot(f) THEN TRUE ELSE @,
           !.flights[k].isShaderBasedPanes =
              IF HasPaneSlot(f) THEN shader ELSE @,
           !.planes = IF HasPaneSlot(f) /\ shader THEN p6 ELSE @]
  IN  IF HasPaneSlot(f) /\ shader
      THEN Flight_applyPaneTextureIndex(registered, k)
      ELSE registered

\* setControlPoints that forgets the instance slot
Flight_setControlPoints_PathOnly(world, k, controlPoints) ==
  LET f == world.flights[k]
  IN  [world EXCEPT
         !.flights[k].controlPoints = controlPoints,
         !.flights[k].cachedCurve = IF HasCurveSlot(f) THEN TRUE ELSE @,
         !.curves = IF HasCurveSlot(f)
                    THEN setCurve(@, f.curveIndex, controlPoints,
                                  f.color, f.flightData)
                    ELSE @]

Flight_setControlPoints(world, k, controlPoints) ==
  LET f == world.flights[k]
  IN  [world EXCEPT
         !.flights[k].controlPoints = controlPoints,
         !.flights[k].cachedCurve = IF HasCurveSlot(f) THEN TRUE ELSE @,
         !.curves = IF HasCurveSlot(f)
                    THEN setCurve(@, f.curveIndex, controlPoints,
                                  f.color, f.flightData)
                    ELSE @,
         !.planes = IF HasShaderSlot(f)
                    THEN setCurveControlPoints(
                           @, f.paneIndex, resampleTo4Points(controlPoints))
                    ELSE @]

Flight_setPaneTextureIndex(world, k, textureIndex) ==
  Flight_applyPaneTextureIndex(
    [world EXCEPT !.flights[k].textureIndex = textureIndex], k)

Flight_setCurveColor(world, k, color) ==
  LET f == world.flights[k]
  IN  [world EXCEPT
         !.flights[k].color = color,
         !.curves = IF HasCurveSlot(f)
                    THEN setCurveColor(@, f.curveIndex, color, f.flightData)
                    ELSE @]

Flight_setPaneColor(world, k, color) ==
  LET f == world.flights[k]
  IN  [world EXCEPT
         !.flights[k].paneColor = color,
         !.planes = IF HasPaneSlot(f)
                    THEN OnPlanesShader(f, @, setPaneColor(@, f.paneIndex, color))
                    ELSE @]

Flight_setPaneSize(world, k, size) ==
  LET f == world.flights[k]
  IN  [world EXCEPT
         !.flights[k].paneSize = size,
         !.planes = IF HasPaneSlot(f)
                    THEN OnPlanesShader(f, @, setPaneSize(@, f.paneIndex, size))
                    ELSE @]

Flight_setPaneElevation(world, k, offset) ==
  LET f == world.flights[k]
  IN  [world EXCEPT
         !.flights[k].elevationOffset = offset,
         !.planes = IF HasPaneSlot(f)
                    THEN OnPlanesShader(f, @,
                           setElevationOffset(@, f.paneIndex, offset))
                    ELSE @]

Flight_setAnimationSpeed(world, k, speed, immediate) ==
  LET f == world.flights[k]
  IN  [world EXCEPT
         !.flights[k].animationSpeedTarget = speed,
         !.flights[k].animationSpeed = IF immediate THEN speed ELSE @,
         !.planes = IF HasShaderSlot(f)
                    THEN setAnimationSpeed(@, f.paneIndex, speed)
                    ELSE @]

\* Flight._applyAnimationSpeedSmoothing; 1e-5 is Unit / 100000 and 1e-4 is Eps
Flight_applyAnimationSpeedSmoothing(world, k, deltaTime) ==
  LET f == world.flights[k]
      difference == f.animationSpeedTarget - f.animationSpeed
      \* factor = deltaTime ? Math.min(1, deltaTime * 6) : 1, in
      \* TicksPerSecond-ths
      factor == IF deltaTime # 0
                THEN Min(TicksPerSecond, deltaTime * 6)
                ELSE TicksPerSecond
      moved == f.animationSpeed + (difference * factor) \div TicksPerSecond
      smoothed == IF Abs(f.animationSpeedTarget - moved) < Eps
                  THEN f.animationSpeedTarget ELSE moved
  IN  IF Abs(difference) * 100000 < Unit
      THEN [world EXCEPT
              !.flights[k].animationSpeed = f.animationSpeedTarget,
              !.planes = IF f.animationSpeed # f.animationSpeedTarget
                            /\ HasShaderSlot(f)
                         THEN setAnimationSpeed(@, f.paneIndex,
                                                f.animationSpeedTarget)
                         ELSE @]
      ELSE [world EXCEPT
              !.flights[k].animationSpeed = smoothed,
              !.planes = IF HasShaderSlot(f)
                         THEN setAnimationSpeed(@, f.paneIndex, smoothed)
                         ELSE @]

\* the path parameter Flight.update derives from the elapsed time
FlightT(returnFlight, animationTime) ==
  IF returnFlight
  THEN LET cycle == JsRemainder(animationTime, 2 * Unit)
       IN  IF cycle > Unit THEN 2 * Unit - cycle ELSE cycle
  ELSE JsRemainder(animationTime, Unit)

\* Flight.update: the smoothing step, then, for panes that are not animated
\* by the shader, the elapsed time advances by deltaTime * animationSpeed
Flight_update(world, k, deltaTime) ==
  LET smoothed == Flight_applyAnimationSpeedSmoothing(world, k, deltaTime)
      f == smoothed.flights[k]
  IN  IF f.isShaderBasedPanes THEN smoothed
      ELSE IF ~f.cachedCurve \/ f.mergedPanes = "null" \/ f.paneIndex < 0
      THEN smoothed
      ELSE [smoothed EXCEPT
              !.flights[k].animationTime =
                 @ + (deltaTime * f.animationSpeed) \div TicksPerSecond]

Flight_setReturnFlight(world, k, enabled) ==
  LET f == world.flights[k]
  IN  IF f.returnFlight = enabled THEN world
      ELSE [world EXCEPT
              !.flights[k].animationTime =
                 IF enabled THEN JsRemainder(@, Unit)
                 ELSE FlightT(TRUE, @),
              !.flights[k].returnFlight = enabled]

Flight_setTiltMode(world, k, mode) ==
  LET f == world.flights[k]
  IN  [world EXCEPT
         !.flights[k].tiltMode = mode,
         !.planes = IF HasShaderSlot(f)
                    THEN setTiltMode(@, f.paneIndex, mode)
                    ELSE @]

Flight_setFlightData(world, k, data) ==
  [world EXCEPT !.flights[k].flightData = OrNull(data)]

Flight_remove(world, k) ==
  LET f == world.flights[k]
  IN  [world EXCEPT
         !.curves = IF HasCurveSlot(f) THEN hideCurve(@, f.curveIndex) ELSE @,
         !.planes = IF HasPaneSlot(f)
                    THEN OnPlanesShader(f, @, hidePane(@, f.paneIndex))
                    ELSE @,
         !.flights[k].cachedCurve = FALSE]

\* ------------------------------------------------------- Flight actions --
\* lastCall follows the calls made on a renderer directly; a Flight or App
\* handler leaves it alone
FlightFrame ==
  UNCHANGED << lastCall, f32Vars, guiParams, app, lastFrame, utilCall >>

FlightIndices == 1 .. Len(flights)

\* new Flight(scene, options) for the next free slot of both renderers, as
\* App.createFlightFromConfig numbers them
FlightNew(options) ==
  /\ Len(flights) < MAX_FLIGHTS
  /\ options.curveIndex = Len(flights)
  /\ options.paneIndex = Len(flights)
  /\ flights' = Append(flights, NewFlight(options))
  /\ UNCHANGED << planeVars, curveVars >>
  /\ FlightFrame

FlightCreate(k) ==
  /\ k \in FlightIndices
  /\ WorldBecomes(Flight_create(WorldNow, k))
  /\ FlightFrame

FlightSetControlPoints(k, controlPoints) ==
  /\ k \in FlightIndices
  /\ WorldBecomes(Flight_setControlPoints(WorldNow, k, controlPoints))
  /\ FlightFrame

FlightSetCurveColor(k, color) ==
  /\ k \in FlightIndices
  /\ WorldBecomes(Flight_setCurveColor(WorldNow, k, color))
  /\ FlightFrame

FlightSetPaneColor(k, color) ==
  /\ k \in FlightIndices
  /\ WorldBecomes(Flight_setPaneColor(WorldNow, k, color))
  /\ FlightFrame

FlightSetPaneSize(k, size) ==
  /\ k \in FlightIndices
  /\ WorldBecomes(Flight_setPaneSize(WorldNow, k, size))
  /\ FlightFrame

FlightSetPaneElevation(k, offset) ==
  /\ k \in FlightIndices
  /\ WorldBecomes(Flight_setPaneElevation(WorldNow, k, offset))
  /\ FlightFrame

FlightSetAnimationSpeed(k, speed, immediate) ==
  /\ k \in FlightIndices
  /\ WorldBecomes(Flight_setAnimationSpeed(WorldNow, k, speed, immediate))
  /\ FlightFrame

FlightUpdate(k, deltaTime) ==
  /\ k \in FlightIndices
  /\ WorldBecomes(Flight_update(WorldNow, k, deltaTime))
  /\ FlightFrame

FlightSetReturnFlight(k, enabled) ==
  /\ k \in FlightIndices
  /\ WorldBecomes(Flight_setReturnFlight(WorldNow, k, enabled))
  /\ FlightFrame

FlightRemove(k) ==
  /\ k \in FlightIndices
  /\ WorldBecomes(Flight_remove(WorldNow, k))
  /\ FlightFrame

\* =================================================================== App ==
\* App.params fields that no handler of the model changes
TiltModeParam == "Tangent"
ElevationOffsetParam == 15
PlaneSizeParam == 100
DashSizeParam == 40
GapSizeParam == 40
\* the flightData of a data flight: a departure location
Departure == [kind |-> "departure", lat |-> 30, lng |-> 20]
\* the atlas metadata loadSvgTexture produces
SvgAtlasInfo == [columns |-> 2, rows |-> 2, count |-> 3,
                 scaleX |-> UvOne \div 2, scaleY |-> UvOne \div 2]

\* the configuration of the flight with index i: entry i % length of the
\* pre-generated list when there is one, else a random configuration; both
\* carry 4 control points
BaseConfig(available, i) ==
  IF available > 0
  THEN [controlPoints |-> PointsA, flightData |-> Departure,
        paneTextureIndex |-> i % available]
  ELSE [controlPoints |-> PointsB, flightData |-> NullMetadata,
        paneTextureIndex |-> 0]

\* App.createFlightFromConfig for the flightConfig the two callers build from
\* baseConfig and App.params: a Flight for slot flightIndex of both renderers
\* is constructed, created, adjusted and appended to the list
createFlightFromConfig(world, baseConfig, flightIndex, returnFlight) ==
  LET options ==
        [mergedCurves |-> TRUE, curveIndex |-> flightIndex,
         mergedPanes |-> "PlanesShader", paneIndex |-> flightIndex,
         controlPoints |-> baseConfig.controlPoints,
         curveColor |-> NumberColor(16711680),
         paneSize |-> PlaneSizeParam, paneColor |-> 0,
         elevationOffset |-> ElevationOffsetParam,
         paneTextureIndex |-> baseConfig.paneTextureIndex,
         animationSpeed |-> DefaultSpeed, tiltMode |-> "",
         returnFlight |-> returnFlight, flightData |-> baseConfig.flightData]
      k == Len(world.flights) + 1
      constructed == [world EXCEPT !.flights = Append(@, NewFlight(options))]
      created == Flight_create(constructed, k)
      withData == Flight_setFlightData(created, k, baseConfig.flightData)
      withTexture ==
        Flight_setPaneTextureIndex(withData, k, baseConfig.paneTextureIndex)
      withSpeed == Flight_setAnimationSpeed(withTexture, k, DefaultSpeed, TRUE)
      withTilt == Flight_setTiltMode(withSpeed, k, TiltModeParam)
      withElevation ==
        Flight_setPaneElevation(withTilt, k, ElevationOffsetParam)
  IN  Flight_setReturnFlight(withElevation, k, returnFlight)

\* the creation loop of initializeFlights and updateFlightCount: flights with
\* index Len(world.flights) .. desiredCount - 1
RECURSIVE CreateFlights(_, _, _, _)
CreateFlights(world, available, desiredCount, returnFlight) ==
  IF Len(world.flights) >= desiredCount THEN world
  ELSE CreateFlights(
         createFlightFromConfig(world,
                                BaseConfig(available, Len(world.flights)),
                                Len(world.flights), returnFlight),
         available, desiredCount, returnFlight)

\* flights.splice(desiredCount) followed by remove() of each removed Flight,
\* the k-th one first
RECURSIVE RemoveFrom(_, _)
RemoveFrom(world, k) ==
  IF k > Len(world.flights) THEN world
  ELSE RemoveFrom(Flight_remove(world, k), k + 1)

\* the removed Flights are dropped from the list without remove()
RemoveFlights_SpliceOnly(world, desiredCount) ==
  [world EXCEPT !.flights = SubSeq(world.flights, 1, desiredCount)]

RemoveFlights(world, desiredCount) ==
  [RemoveFrom(world, desiredCount + 1) EXCEPT
     !.flights = SubSeq(world.flights, 1, desiredCount)]

\* flights.forEach((flight) => flight.applyPaneTextureIndex()), from the
\* k-th Flight on
RECURSIVE ApplyPaneTextureIndexFrom(_, _)
ApplyPaneTextureIndexFrom(world, k) ==
  IF k > Len(world.flights) THEN world
  ELSE ApplyPaneTextureIndexFrom(Flight_applyPaneTextureIndex(world, k), k + 1)

\* flights.forEach((flight) => flight.setReturnFlight(value)), from the k-th
\* Flight on
RECURSIVE SetReturnFlightFrom(_, _, _)
SetReturnFlightFrom(world, k, value) ==
  IF k > Len(world.flights) THEN world
  ELSE SetReturnFlightFrom(Flight_setReturnFlight(world, k, value), k + 1,
                           value)

\* FlightPathManager.applyVisibility and PlaneControlsManager.setHidePlane
ApplyVisibility(world, gui) ==
  [world EXCEPT
     !.curves = setVisibleCurveCount(
                  @, IF gui.hidePath THEN 0 ELSE Len(world.flights)),
     !.planes = setActivePaneCount(
                  @, IF gui.hidePlane THEN 0 ELSE Len(world.flights))]

\* the number of configurations updateFlightCount can draw from
AvailableConfigs ==
  IF app.preGeneratedConfigs > 0 THEN app.preGeneratedConfigs ELSE MAX_FLIGHTS

AppFrame == UNCHANGED << lastCall, f32Vars, lastFrame, utilCall >>

UpdateFlightCount(target) ==
  LET currentCount == Len(flights)
      desiredCount == Min(Max(target, 0), AvailableConfigs)
      grown == CreateFlights(WorldNow, app.preGeneratedConfigs, desiredCount,
                             guiParams.returnFlight)
      resized ==
        IF desiredCount > currentCount
        THEN [grown EXCEPT !.curves = applyUpdates(@)]
        ELSE IF desiredCount < currentCount
        THEN RemoveFlights(WorldNow, desiredCount)
        ELSE WorldNow
  IN  /\ app.mergedRenderers
      /\ guiParams' = [guiParams EXCEPT !.numFlights = desiredCount]
      /\ WorldBecomes(ApplyVisibility(resized, guiParams'))
      /\ UNCHANGED app
      /\ AppFrame

\* App.applyPaneTexture on a renderer: the texture when it is loaded, else
\* none while loadSvgTexture runs
applyPaneTexture(world, gui, loaded) ==
  LET textured == [world EXCEPT !.planes = setTexture(@, TRUE, SvgAtlasInfo)]
  IN  IF gui.paneStyle = "SVG" /\ loaded
      THEN ApplyPaneTextureIndexFrom(textured, 1)
      ELSE [world EXCEPT !.planes = setTexture(@, FALSE, NoAtlas)]

\* FlightControlsManager.setReturnFlight on the Flights and the renderer
setReturnFlight(world, value) ==
  [SetReturnFlightFrom(world, 1, value) EXCEPT
     !.planes = setReturnMode(@, value)]

\* App.loadSvgTexture that starts a build whenever no texture is loaded yet,
\* without looking at the memoized promise
loadSvgTexture_NoMemo(a) ==
  IF a.svgTexture THEN a
  ELSE [a EXCEPT !.svgTexturePromise = TRUE, !.buildsInFlight = @ + 1]

\* App.loadSvgTexture on the fields of App: the loaded texture or the
\* memoized promise when there is one, else a new atlas build
loadSvgTexture(a) ==
  IF a.svgTexture \/ a.svgTexturePromise THEN a
  ELSE [a EXCEPT !.svgTexturePromise = TRUE, !.buildsInFlight = @ + 1]

\* the number of flights App.initializeFlights settles on: no more than the
\* pre-generated configurations when there are any
desiredCount(gui, a) ==
  IF a.preGeneratedConfigs > 0
  THEN Min(gui.numFlights, a.preGeneratedConfigs)
  ELSE gui.numFlights

\* the fields of App after App.initializeFlights: the renderers exist, and
\* under the SVG style without a loaded texture the load is asked for and a
\* continuation waits for it
ensureSvgTexture(gui, a) ==
  LET requested == gui.paneStyle = "SVG" /\ ~a.svgTexture
  IN  [(IF requested THEN loadSvgTexture(a) ELSE a) EXCEPT
         !.mergedRenderers = TRUE,
         !.thenPending = IF requested THEN TRUE ELSE @]

\* the renderers App.initializeFlights leaves behind, from the parameters gui
\* and the fields a of App
initializeFlights(gui, a) ==
  LET fresh == [flights |-> << >>,
                curves |-> applyUpdates(
                             setDashPattern(NewCurves(DashSizeParam, GapSizeParam),
                                            DashSizeParam, GapSizeParam)),
                planes |-> NewPlanesShader(gui.returnFlight)]
      textured == applyPaneTexture(fresh, gui, a.svgTexture)
      filled == CreateFlights(textured, a.preGeneratedConfigs,
                              desiredCount(gui, a), gui.returnFlight)
  IN  setReturnFlight(
        ApplyVisibility(filled,
                        [gui EXCEPT !.numFlights = desiredCount(gui, a)]),
        gui.returnFlight)

InitializeFlights ==
  /\ guiParams' = [guiParams EXCEPT !.numFlights = desiredCount(guiParams, app)]
  /\ app' = ensureSvgTexture(guiParams, app)
  /\ WorldBecomes(initializeFlights(guiParams, app))
  /\ AppFrame

\* PlaneControlsManager.setPaneStyle.  The renderer it clears for another
\* style is the one initializeFlights replaces in the same call; the
\* continuation it registers on a texture that is already loaded runs right
\* after the handler, on the renderer initializeFlights has left behind
SetPaneStyle(style) ==
  LET gui == [guiParams EXCEPT !.paneStyle = style]
      asked == IF style = "SVG"
               THEN [loadSvgTexture(app) EXCEPT
                       !.thenPending = IF app.svgTexture THEN @ ELSE TRUE]
               ELSE app
  IN  /\ guiParams' = [gui EXCEPT !.numFlights = desiredCount(gui, asked)]
      /\ app' = ensureSvgTexture(gui, asked)
      /\ WorldBecomes(IF style = "SVG" /\ app.svgTexture
                      THEN applyPaneTexture(initializeFlights(gui, asked),
                                            guiParams', TRUE)
                      ELSE initializeFlights(gui, asked))
      /\ AppFrame

\* a build started by loadSvgTexture ends: on success the texture is kept
\* and the waiting continuations apply it if the pane style is still SVG; on
\* failure the promise is dropped and the continuations do nothing
SvgLoadSettles(success) ==
  /\ app.buildsInFlight > 0
  /\ app' = [app EXCEPT !.svgTexture = (@ \/ success),
                        !.svgTexturePromise = (@ /\ success),
                        !.buildsInFlight = @ - 1,
                        !.thenPending = FALSE]
  /\ WorldBecomes(
       IF success /\ app.thenPending /\ guiParams.paneStyle = "SVG"
          /\ app.mergedRenderers
       THEN applyPaneTexture(WorldNow, guiParams, TRUE)
       ELSE WorldNow)
  /\ UNCHANGED guiParams
  /\ AppFrame

\* FlightControlsManager.setReturnFlight
SetReturnFlight(value) ==
  /\ guiParams' = [guiParams EXCEPT !.returnFlight = value]
  /\ WorldBecomes(IF app.mergedRenderers
                  THEN setReturnFlight(WorldNow, value)
                  ELSE WorldNow)
  /\ UNCHANGED app
  /\ AppFrame

\* a frame that draws before it flushes
Animate_DrawsBeforeFlush(delta) ==
  LET updated == update(PlanesNow, delta)
      flushed == applyUpdates(CurvesNow)
  IN  /\ app.mergedRenderers
      /\ time + delta <= MaxTime
      /\ PlanesBecome(updated)
      /\ CurvesBecome(flushed)
      /\ lastFrame' =
           [steps |-> << "update", "render", "applyUpdates" >>,
            pendingAtStart |-> CurvesNow.needsPositionUpdate
                                 \/ CurvesNow.needsColorUpdate,
            needsPositionUpdate |-> CurvesNow.needsPositionUpdate,
            needsColorUpdate |-> CurvesNow.needsColorUpdate]
      /\ UNCHANGED << flights, guiParams, app, lastCall, f32Vars, utilCall >>

\* one frame of App.animate: mergedPanes.update(delta), then
\* mergedCurves.applyUpdates(), then renderer.render.  lastFrame records the
\* order of the three steps, whether a position or colour write was pending
\* when the frame began, and the dirty flags of Curves as the draw call finds
\* them
Animate(delta) ==
  LET updated == update(PlanesNow, delta)
      flushed == applyUpdates(CurvesNow)
  IN  /\ app.mergedRenderers
      /\ time + delta <= MaxTime
      /\ PlanesBecome(updated)
      /\ CurvesBecome(flushed)
      /\ lastFrame' =
           [steps |-> << "update", "applyUpdates", "render" >>,
            pendingAtStart |-> CurvesNow.needsPositionUpdate
                                 \/ CurvesNow.needsColorUpdate,
            needsPositionUpdate |-> flushed.needsPositionUpdate,
            needsColorUpdate |-> flushed.needsColorUpdate]
      /\ UNCHANGED << flights, guiParams, app, lastCall, f32Vars, utilCall >>

\* ------------------------------------------------------------ FlightUtils --
EARTH_RADIUS == 3000
MIN_CURVE_ALTITUDE == 20
TAKEOFF_LANDING_OFFSET == 18
MIN_CRUISE_ALTITUDE == 30
MAX_CRUISE_ALTITUDE == 220

\* A THREE.Vector3 handled by FlightUtils is [v, to]: with to = 0 it is the
\* vector v, with to > 0 it is v after normalize().multiplyScalar(to / 100),
\* kept as the direction v and the length to / 100 so that no square root is
\* taken.  Coordinates are whole world units.
ZeroVector == <<0, 0, 0>>
Raw(v) == [v |-> v, to |-> 0]
RawAll(vectors) == [i \in 1 .. Len(vectors) |-> Raw(vectors[i])]
LengthSq(v) == v[1] * v[1] + v[2] * v[2] + v[3] * v[3]
Dot(a, b) == a[1] * b[1] + a[2] * b[2] + a[3] * b[3]
VSub(a, b) == [c \in 1 .. 3 |-> a[c] - b[c]]
VAdd(a, b) == [c \in 1 .. 3 |-> a[c] + b[c]]
VScale(a, k) == [c \in 1 .. 3 |-> a[c] * k]
crossVectors(a, b) ==
  << a[2] * b[3] - a[3] * b[2], a[3] * b[1] - a[1] * b[3],
     a[1] * b[2] - a[2] * b[1] >>
Signum(x) == IF x > 0 THEN 1 ELSE IF x < 0 THEN 0 - 1 ELSE 0

\* point.normalize().multiplyScalar(hundredths / 100); normalize leaves the
\* zero vector as it is (it divides by length() || 1)
SetLength(point, hundredths) ==
  IF point.v = ZeroVector THEN point ELSE [v |-> point.v, to |-> hundredths]

\* the same for a vector that lies along one coordinate axis, where the
\* result has whole coordinates
SetLengthOnAxis(v, length) == [c \in 1 .. 3 |-> Signum(v[c]) * length]

\* point.length() = 0 and point.length() < radius
IsOrigin(point) == point.v = ZeroVector
ShorterThan(point, radius) ==
  IF point.v = ZeroVector THEN 0 < radius
  ELSE IF point.to > 0 THEN point.to < 100 * radius
  ELSE LengthSq(point.v) < radius * radius

\* FlightUtils.ensureMinimumCurveAltitude
ensureMinimumCurveAltitude(points, radius, minAltitude) ==
  LET safeRadius == radius + minAltitude
  IN  [i \in 1 .. Len(points) |->
         IF ~IsOrigin(points[i]) /\ ShorterThan(points[i], safeRadius)
         THEN SetLength(points[i], 100 * safeRadius)
         ELSE points[i]]

\* FlightUtils.normalizeControlPoints, for lists of 0, 2 and 4 points: the
\* CatmullRomCurve3 through two points is the segment between them, sampled
\* at 0.0, 0.333, 0.666 and 1.0
normalizeControlPoints(points, radius, minAltitude) ==
  IF Len(points) = 4
  THEN ensureMinimumCurveAltitude(points, radius, minAltitude)
  ELSE IF Len(points) = 0 THEN << >>
  ELSE LET a == points[1].v
           b == points[Len(points)].v
           sampledPoints ==
             << Raw(SegmentPoint(a, b, 0)), Raw(SegmentPoint(a, b, 333)),
                Raw(SegmentPoint(a, b, 666)), Raw(SegmentPoint(a, b, 1000)) >>
       IN  ensureMinimumCurveAltitude(sampledPoints, radius, minAltitude)

\* Math.sin and Math.cos of a whole number of quarter turns, in degrees
SinDeg(degrees) ==
  LET m == degrees % 360
  IN  IF m = 90 THEN 1 ELSE IF m = 270 THEN 0 - 1 ELSE 0
CosDeg(degrees) ==
  LET m == degrees % 360
  IN  IF m = 0 THEN 1 ELSE IF m = 180 THEN 0 - 1 ELSE 0

\* latLngToVector3, for latitudes and longitudes that are multiples of 90
latLngToVector3(lat, lng, radius) ==
  LET phi == 90 - lat
      theta == (0 - lng) + 180
      x == radius * SinDeg(phi) * CosDeg(theta)
      y == radius * CosDeg(phi)
      z == radius * SinDeg(phi) * SinDeg(theta)
  IN  << z, y, 0 - x >>

\* Vector3.lerp(end, percent / 100)
Lerp(start, end, percent) ==
  [c \in 1 .. 3 |-> start[c] + ((end[c] - start[c]) * percent) \div 100]

\* the tangent of generateParabolicControlPoints at a surface point with the
\* unit normal, towards pathDir: the part of pathDir in the tangent plane,
\* else the cross product of the normal and the y axis, else the x axis
TangentAt(normal, pathDir) ==
  LET projected == VSub(pathDir, VScale(normal, Dot(pathDir, normal)))
      crossed == crossVectors(normal, <<0, 1, 0>>)
  IN  IF LengthSq(projected) # 0 THEN projected
      ELSE IF LengthSq(crossed) # 0 THEN crossed
      ELSE <<1, 0, 0>>

\* FlightUtils.generateParabolicControlPoints for two places on the coordinate
\* axes that are equal or a quarter turn apart.  randomStart and randomEnd
\* are what the two calls of Vector3.randomDirection() return when departure
\* and arrival coincide.  distanceRatio is 0 for equal places and 1 for places
\* further apart than 0.3 * pi * radius, which a quarter turn is.
generateParabolicControlPoints(departure, arrival, options, randomStart, randomEnd) ==
  LET radius == options.radius
      surfaceOffset == Max(options.takeoffOffset, options.minCurveAltitude)
      cruiseMin == Max(options.minCruiseAltitude, surfaceOffset + 5)
      origin == latLngToVector3(departure.lat, departure.lng, radius)
      destination == latLngToVector3(arrival.lat, arrival.lng, radius)
      startSurface == SetLengthOnAxis(origin, radius + surfaceOffset)
      endSurface == SetLengthOnAxis(destination, radius + surfaceOffset)
      distanceSq == LengthSq(VSub(endSurface, startSurface))
      cruiseAltitude == IF distanceSq = 0 THEN cruiseMin
                        ELSE options.maxCruiseAltitude
      Climb(percent, share) ==
        SetLength(Raw(Lerp(startSurface, endSurface, percent)),
                  100 * radius + cruiseAltitude * share)
      startNormal == SetLengthOnAxis(startSurface, 1)
      pathDirStart == IF distanceSq = 0 THEN randomStart
                      ELSE VSub(endSurface, startSurface)
      tangentStart == SetLengthOnAxis(TangentAt(startNormal, pathDirStart), 1)
      tangentDistance == (radius * 8) \div 100
      surfaceLength == radius + surfaceOffset
      startTangentPoint ==
        SetLength(Raw(VAdd(startSurface, VScale(tangentStart, tangentDistance))),
                  100 * surfaceLength)
      endNormal == SetLengthOnAxis(endSurface, 1)
      pathDirEnd == IF distanceSq = 0 THEN randomEnd
                    ELSE VSub(startSurface, endSurface)
      tangentEnd == SetLengthOnAxis(TangentAt(endNormal, pathDirEnd), 1)
      endTangentPoint ==
        SetLength(Raw(VAdd(endSurface, VScale(tangentEnd, tangentDistance))),
                  100 * surfaceLength)
      controlPoints ==
        << Raw(startSurface), startTangentPoint, Climb(20, 40), Climb(35, 75),
           Climb(50, 85), Climb(65, 75), Climb(80, 40), endTangentPoint,
           Raw(endSurface) >>
  IN  ensureMinimumCurveAltitude(controlPoints, radius,
                                 options.minCurveAltitude)

\* the options App.createDataFlightConfig passes
ParabolicOptions ==
  [radius |-> EARTH_RADIUS, takeoffOffset |-> TAKEOFF_LANDING_OFFSET,
   minCurveAltitude |-> MIN_CURVE_ALTITUDE,
   minCruiseAltitude |-> MIN_CRUISE_ALTITUDE,
   maxCruiseAltitude |-> MAX_CRUISE_ALTITUDE]

UtilFrame == UNCHANGED << planeVars, curveVars, lastCall, f32Vars, flights,
                          guiParams, app, lastFrame >>

\* one call of FlightUtils.ensureMinimumCurveAltitude(points, 3000, 20)
EnsureMinimumCurveAltitude ==
  /\ utilCall.op = "none"
  /\ utilCall' =
       [utilCall EXCEPT
          !.op = "ensureMinimumCurveAltitude",
          !.result = ensureMinimumCurveAltitude(
                       RawAll(utilCall.points), EARTH_RADIUS,
                       MIN_CURVE_ALTITUDE),
          !.calls = 1]
  /\ UtilFrame

\* one call of FlightUtils.normalizeControlPoints(points, 3000, 20)
NormalizeControlPoints ==
  /\ utilCall.op = "none"
  /\ utilCall' =
       [utilCall EXCEPT
          !.op = "normalizeControlPoints",
          !.result = normalizeControlPoints(
                       RawAll(utilCall.points), EARTH_RADIUS,
                       MIN_CURVE_ALTITUDE),
          !.calls = 1]
  /\ UtilFrame

\* one call of FlightUtils.generateParabolicControlPoints(departure, arrival,
\* options); a second call with the same arguments keeps the result of the
\* first in previous
GenerateParabolicControlPoints(randomStart, randomEnd) ==
  /\ utilCall.op \in {"none", "generateParabolicControlPoints"}
  /\ utilCall.calls < 2
  /\ utilCall' =
       [utilCall EXCEPT
          !.op = "generateParabolicControlPoints",
          !.previous = utilCall.result,
          !.result = generateParabolicControlPoints(
                       utilCall.departure, utilCall.arrival, ParabolicOptions,
                       randomStart, randomEnd),
          !.calls = @ + 1]
  /\ UtilFrame

\* Math.acos of -1, 0 and 1 and Math.atan2 for a point on a coordinate axis
\* of the plane, in degrees; Math.atan2(0, 0) is 0
AcosDeg(cosine) == IF cosine > 0 THEN 0 ELSE IF cosine < 0 THEN 180 ELSE 90
Atan2Deg(y, x) ==
  IF y > 0 THEN 90 ELSE IF y < 0 THEN 0 - 90 ELSE IF x < 0 THEN 180 ELSE 0

\* vector3ToLatLng, for a position on a coordinate axis
vector3ToLatLng(position, radius) ==
  LET x == 0 - position[3]
      y == position[2]
      z == position[1]
      normalizedPosition == SetLengthOnAxis(<<x, y, z>>, radius)
      phi == AcosDeg(normalizedPosition[2])
      theta == Atan2Deg(normalizedPosition[3], normalizedPosition[1])
      lat == 90 - phi
      lng == JsRemainder(theta + 180, 360) - 180
  IN  Geo(lat, lng)

\* one call of latLngToVector3(lat, lng, radius)
LatLngToVector3 ==
  /\ utilCall.op = "none"
  /\ utilCall' =
       [utilCall EXCEPT
          !.op = "latLngToVector3",
          !.result = << latLngToVector3(utilCall.departure.lat,
                                        utilCall.departure.lng,
                                        utilCall.radius) >>,
          !.calls = 1]
  /\ UtilFrame

\* one call of vector3ToLatLng on the vector latLngToVector3 returned
Vector3ToLatLng ==
  /\ utilCall.op = "latLngToVector3"
  /\ utilCall' =
       [utilCall EXCEPT
          !.op = "vector3ToLatLng",
          !.previous = utilCall.result,
          !.result = << vector3ToLatLng(utilCall.result[1], utilCall.radius) >>,
          !.calls = 2]
  /\ UtilFrame

\* --------------------------------------------------------------- Next -----
Next ==
  \/ \E enabled \in BOOLEAN : SetReturnMode(enabled)
  \/ \E deltaTime \in DeltaTimes : Update(deltaTime)
  \/ \E index \in Panes : HidePane(index)
  \/ \E count \in PaneCountInputs : SetActivePaneCount(count)
  \/ \E index \in Panes : SetCurveControlPoints(index, PointsOrigin)
  \/ \E index \in SpeedIndexInputs \cap Panes, speed \in SpeedChoices :
       SetAnimationSpeed(index, speed)

Spec == Init /\ [][Next]_vars

TypeOK ==
  /\ time \in 0 .. MaxTime
  /\ returnModeEnabled \in BOOLEAN
  /\ returnModePreferred \in BOOLEAN
  /\ activePanes \in (0 - 1) .. MaxPanes
  /\ \A i \in Panes : animationParams[i].phase \in 0 .. (2 * Unit)
  /\ landing \subseteq Panes
\* ===================================================== return-mode claims ==
NoPending == \A i \in Panes : pendingReturnCompletion[i] = 0

\* the step is one of the two operations that rewind phases
DisableOrUpdateStep ==
  SetReturnMode(FALSE) \/ \E deltaTime \in DeltaTimes : Update(deltaTime)

\* the step subtracts one cycle-unit from the phase of instance i
PhaseRewound(i) ==
  /\ animationParams'[i].speed = animationParams[i].speed
  /\ animationParams'[i].phase =
       _wrapProgress(animationParams[i].phase - Unit, 2 * Unit)

\* C1: drain invariant - a pending flag is 1 only while returnModeEnabled is
\* true, so returnModeEnabled never drops to false (and is never false) in a
\* state where some instance still has its pending flag set.
C1_PendingOnlyWhileEnabled == ~returnModeEnabled => NoPending

\* C2: no instance is rewound mid-return-leg - while return mode is enabled,
\* neither setReturnMode(false) nor update subtracts a cycle-unit from the
\* phase of an instance that the previous frame drew on its return leg
\* (cycle > 1 + epsilon) and that is still visible and still on that leg.
C2_NoRewindMidReturnLeg ==
  [][ \A i \in Panes :
        ( /\ returnModeEnabled
          /\ i \in drawnOnReturn
          /\ IsVisible(animationParams, i)
          /\ Cycle(i) > Unit + Eps
          /\ DisableOrUpdateStep )
        => ~PhaseRewound(i) ]_vars

\* C3: disabling never truncates a return leg - returnModeEnabled is false
\* only when every instance that was active, visible and on its return leg at
\* the disable request, and stayed visible, has finished that leg.
C3_ReturnLegNeverTruncated == ~returnModeEnabled => landing = {}
\* instance i is the single instance the reconciliation loop looks at, and it
\* moves forward in time
Single(i) ==
  /\ Considered(animationParams, activePanes, i)
  /\ animationParams[i].speed > 0
  /\ \A j \in Panes \ {i} : ~Considered(animationParams, activePanes, j)

UpdateStep == \E deltaTime \in DeltaTimes : Update(deltaTime)

\* a disable request marks the single instance that is mid return leg and
\* leaves returnModeEnabled true
C4_DisableMarks(i) ==
  ( /\ SetReturnMode(FALSE) /\ returnModeEnabled
    /\ Single(i) /\ Cycle(i) > Unit + Eps )
  => ( pendingReturnCompletion'[i] = 1 /\ returnModeEnabled' )

\* the flag and the mode survive every update that still finds the cycle in
\* the return leg
C4_StaysWhileReturning(i) ==
  ( /\ UpdateStep /\ Draining
    /\ Single(i) /\ pendingReturnCompletion[i] = 1
    /\ CycleAt(animationParams, time', i) > Unit )
  => ( pendingReturnCompletion'[i] = 1 /\ returnModeEnabled' )

\* the update that finds the cycle at most `limit` clears the flag, restarts
\* the phase at cycle 0 and switches the mode off
C4_Lands(i, limit) ==
  ( /\ UpdateStep /\ Draining
    /\ Single(i) /\ pendingReturnCompletion[i] = 1
    /\ CycleAt(animationParams, time', i) <= limit )
  => ( /\ pendingReturnCompletion'[i] = 0
       /\ CycleAt(animationParams', time', i) = 0
       /\ ~returnModeEnabled' )

C5_EnableIsImmediate ==
  [][ SetReturnMode(TRUE)
      => ( /\ returnModePreferred' /\ returnModeEnabled'
           /\ \A i \in Panes : pendingReturnCompletion'[i] = 0
           /\ \A i \in Panes :
                /\ animationParams'[i].phase = animationParams[i].phase
                /\ animationParams'[i].speed = animationParams[i].speed ) ]_vars

\* an enable request has interrupted a drain: the mode is on and preferred, no
\* flag is set, and an instance of the interrupted drain is still on its leg
C5_Witness ==
  /\ returnModePreferred /\ returnModeEnabled /\ NoPending
  /\ landing # {}

\* specification for the evaluation stage: the same operations, with frames
\* 3 seconds apart so that cycles fall between the multiples of one half
ModeDeltaTimes == {3}

NextMode ==
  \/ \E enabled \in BOOLEAN : SetReturnMode(enabled)
  \/ \E deltaTime \in ModeDeltaTimes : Update(deltaTime)
  \/ \E index \in Panes : HidePane(index)
  \/ \E count \in 0 .. MaxPanes : SetActivePaneCount(count)
  \/ \E index \in Panes : SetCurveControlPoints(index, PointsOrigin)

SpecMode == Init /\ [][NextMode]_vars

\* C6: no visual discontinuity at a mode change - in a step that changes
\* returnModeEnabled, the path parameter t of every active visible instance is
\* the same (to within epsilon) under the old and the new value of the flag.
C6_ModeChangeKeepsPathParameter ==
  [][ returnModeEnabled' # returnModeEnabled
      => \A i \in Panes :
           Considered(animationParams', activePanes', i)
           => Abs(ShaderT(returnModeEnabled, animationParams', time', i)
                  - ShaderT(returnModeEnabled', animationParams', time', i))
              <= Eps ]_vars

\* ====================================================== speed-change claim ==
\* global times, stored phases and stored speeds (single-precision values) and
\* speed arguments (doubles) of the experiment: 0.1, 0.05 and 0.2 as stored;
\* as arguments the double one grid step below Math.fround(0.1), 0.125,
\* Math.fround(0.1) and 1 + 2^-24
F32Times == {0, 20, 2000, 70000}
F32Phases == {0, F32One \div 4, F32One \div 2}
F32Speeds == {F32Tenth, F32Tenth \div 2, 2 * F32Tenth}
F32SpeedArguments == {F32Tenth - 1, F32One \div 8, F32Tenth, F32One + 16}

InitF32 ==
  /\ InitPlanes
  /\ InitCurves
  /\ lastCall = "accepted"
  /\ f32 \in [time : F32Times, phase : F32Phases, speed : F32Speeds]
  /\ f32Before = 0 - 1
  /\ InitApp

NextF32 == \E speed \in F32SpeedArguments : SetAnimationSpeedF32(speed)

SpecF32 == InitF32 /\ [][NextF32]_vars

\* largest difference on the 2^-28 grid that is below 1e-4
F32Tolerance == F32One \div 10000

\* distance of two progress values on the cycle: a wrap from just below the
\* period to just above 0 counts as small
CycleDistance(a, b) == Min(Abs(a - b), F32Period - Abs(a - b))

\* C7: speed-change continuity - for every global time, old speed, old phase
\* and new speed, progress = (T * speed + phase) mod period computed right
\* after setAnimationSpeed differs from the progress right before it by less
\* than 1e-4 (as a distance on the cycle), in both modes.
C7_SpeedChangeContinuity ==
  f32Before # 0 - 1
  => CycleDistance(F32Progress(f32), f32Before) <= F32Tolerance

\* ============================================================ packing claim ==
\* panes vertex stage: getControlPoint(index) from the three pack attributes
\* of one instance
getControlPoint(pack1, pack2, pack3, index) ==
  IF index = 0 THEN << pack1[1], pack1[2], pack1[3] >>
  ELSE IF index = 1 THEN << pack1[4], pack2[1], pack2[2] >>
  ELSE IF index = 2 THEN << pack2[3], pack2[4], pack3[1] >>
  ELSE << pack3[2], pack3[3], pack3[4] >>

NextPack ==
  \/ \E index \in Panes, controlPoints \in ControlPointInputs :
       SetCurveControlPoints(index, controlPoints)
  \/ \E index \in Panes : HidePane(index)
  \/ \E count \in 0 .. MaxPanes : SetActivePaneCount(count)

SpecPack == Init /\ [][NextPack]_vars

\* b is a within single precision: exact when a fits the significand, and
\* otherwise off by at most 2^-24 of its magnitude
SinglePrecisionOf(a, b) == Abs(b - a) * Pow2(F32Mantissa) <= Abs(a)

SamePoint(p, q) == \A c \in 1 .. 3 : SinglePrecisionOf(p[c], q[c])

\* C8: for every index in range and any 4 points, setCurveControlPoints stores
\* the 12 coordinates so that reading them back through the layout the vertex
\* stage decodes reproduces the 4 input points in order (to single precision),
\* marks the instance visible and leaves the control points of every other
\* instance unchanged; with fewer than 4 points nothing is written and the
\* visible flag is unchanged.
C8_PackedRoundTrip ==
  [][ \A index \in Panes, controlPoints \in ControlPointInputs :
        SetCurveControlPoints(index, controlPoints)
        => IF Len(controlPoints) >= 4
           THEN /\ \A k \in 0 .. 3 :
                     SamePoint(controlPoints[k + 1],
                               getControlPoint(controlPointsPack1'[index],
                                               controlPointsPack2'[index],
                                               controlPointsPack3'[index], k))
                /\ animationParams'[index].visible = 1
                /\ \A j \in Panes \ {index} :
                     /\ controlPointsPack1'[j] = controlPointsPack1[j]
                     /\ controlPointsPack2'[j] = controlPointsPack2[j]
                     /\ controlPointsPack3'[j] = controlPointsPack3[j]
           ELSE /\ UNCHANGED packVars
                /\ animationParams'[index].visible
                     = animationParams[index].visible ]_vars

\* instance 0 decodes to PointsB as single precision holds it and is visible,
\* while instance 1 still decodes to PointsA
C8_Witness ==
  /\ getControlPoint(controlPointsPack1[0], controlPointsPack2[0],
                     controlPointsPack3[0], 0) = << 16777216, 0 - 2, 3 >>
  /\ getControlPoint(controlPointsPack1[0], controlPointsPack2[0],
                     controlPointsPack3[0], 1) = << 33554440, 5, 0 - 16777220 >>
  /\ getControlPoint(controlPointsPack1[0], controlPointsPack2[0],
                     controlPointsPack3[0], 3) = << 0 - 10, 16777218, 12 >>
  /\ animationParams[0].visible = 1
  /\ \A k \in 0 .. 3 :
       getControlPoint(controlPointsPack1[1], controlPointsPack2[1],
                       controlPointsPack3[1], k) = PointsA[k + 1]

\* ============================================================ Curves claims ==
CurveIndexInputs == (0 - 1) .. MaxCurves
CurveCountInputs == (0 - 1) .. (MaxCurves + 1)
OnePoint == << <<1, 2, 3>> >>
CurvePointInputs == { PointsA, OnePoint }
Red == [type |-> "number", value |-> 16711680,
        departureLat |-> 0, departureLng |-> 0]
Gradient == [type |-> "gradient", value |-> 0,
             departureLat |-> 45, departureLng |-> 0 - 200]
ColorInputs == { Red, Gradient }
DashInputs == {0, 2}
GapInputs == {0 - 1, 1}

NextCurves ==
  \/ \E curveIndex \in CurveIndexInputs, controlPoints \in CurvePointInputs,
        color \in ColorInputs :
       SetCurve(curveIndex, controlPoints, color, NullMetadata)
  \/ \E curveIndex \in Curves, color \in ColorInputs :
       SetCurveColor(curveIndex, color, UndefinedMetadata)
  \/ \E curveIndex \in Curves : HideCurve(curveIndex)
  \/ \E count \in CurveCountInputs : SetVisibleCurveCount(count)
  \/ \E dash \in DashInputs, gap \in GapInputs : SetDashPattern(dash, gap)
  \/ ApplyUpdates

SpecCurves == Init /\ [][NextCurves]_vars

\* C9: draw-range invariant - after any sequence of setCurve, setCurveColor,
\* hideCurve, setVisibleCurveCount, setDashPattern and applyUpdates calls the
\* draw range starts at vertex 0 and its length is currentCurveCount *
\* verticesPerCurve, which lies between 0 and maxCurves * verticesPerCurve.
C9_DrawRangeIsPrefix ==
  /\ drawRange.start = 0
  /\ drawRange.count = currentCurveCount * VerticesPerCurve
  /\ drawRange.count >= 0
  /\ drawRange.count <= MaxCurves * VerticesPerCurve

\* ============================================================= index claims ==
\* indices handed to the per-index mutators: below the range, the first slot,
\* and one past the last slot
EdgePaneIndices == {0 - 1, 0, MaxPanes}
EdgeCurveIndices == {0 - 1, 0, MaxCurves}
Atlas2x2 == [columns |-> 2, rows |-> 2, count |-> 3,
             scaleX |-> UvOne \div 2, scaleY |-> UvOne \div 2]

NextIndex ==
  \/ \E index \in EdgePaneIndices, controlPoints \in {PointsA, PointsShort} :
       SetCurveControlPoints(index, controlPoints)
  \/ \E index \in EdgePaneIndices : HidePane(index)
  \/ \E index \in EdgePaneIndices : SetAnimationSpeed(index, 2 * DefaultSpeed)
  \/ \E index \in EdgePaneIndices : SetPaneColor(index, 16711680)
  \/ \E index \in EdgePaneIndices : SetPaneSize(index, 150)
  \/ \E index \in EdgePaneIndices : SetElevationOffset(index, 5)
  \/ \E index \in EdgePaneIndices : SetTiltMode(index, "Tangent")
  \/ \E index \in EdgePaneIndices : SetTextureIndex(index, 0 - 1)
  \/ \E hasTexture \in BOOLEAN : SetTexture(hasTexture, Atlas2x2)
  \/ \E curveIndex \in EdgeCurveIndices, controlPoints \in CurvePointInputs :
       SetCurve(curveIndex, controlPoints, Red, NullMetadata)
  \/ \E curveIndex \in EdgeCurveIndices :
       SetCurveColor(curveIndex, Gradient, UndefinedMetadata)
  \/ \E curveIndex \in EdgeCurveIndices : HideCurve(curveIndex)

SpecIndex == Init /\ [][NextIndex]_vars

\* C10: every indexing error is a non-fatal no-op - a call rejected for an
\* out-of-range index or for too few points logs a warning and leaves all
\* buffers, visibility flags, dirty flags, the draw range and the return-mode
\* state exactly as they were.
C10_IndexErrorsAreWarnedNoOps ==
  [][ lastCall' # "accepted"
      => ( lastCall' = "warned" /\ UNCHANGED << planeVars, curveVars >> ) ]_vars

\* ============================================================ removal claims ==
\* hiding and re-filling slots of both renderers, with flushes in between
NextHide ==
  \/ \E curveIndex \in Curves : SetCurve(curveIndex, PointsA, Red, NullMetadata)
  \/ \E curveIndex \in Curves : HideCurve(curveIndex)
  \/ ApplyUpdates
  \/ \E index \in Panes : SetCurveControlPoints(index, PointsA)
  \/ \E index \in Panes : HidePane(index)

SpecHide == Init /\ [][NextHide]_vars

\* C11: removal is idempotent - hideCurve(i) and hidePane(i) on a slot that is
\* already hidden are no-ops: buffers, visibility flags, draw range and
\* pending-upload flags after the call equal those before the call.
C11_HideIsIdempotent ==
  [][ /\ \A curveIndex \in Curves :
           ( HideCurve(curveIndex) /\ ~curveData[curveIndex].visible )
           => UNCHANGED curveVars
      /\ \A index \in Panes :
           ( HidePane(index) /\ ~IsVisible(animationParams, index) )
           => UNCHANGED planeVars ]_vars

\* instances of PlanesShader with varied contents: control points on every
\* instance, colour, size, elevation and tilt on instance 0, and one long
\* frame that carries instance 0 to the middle of its return leg
PlanesDeltaTimes == {15}

NextPlanes ==
  \/ \E index \in Panes : SetCurveControlPoints(index, PointsB)
  \/ \E index \in Panes : HidePane(index)
  \/ SetPaneColor(0, 16711680)
  \/ SetPaneSize(0, 150)
  \/ SetElevationOffset(0, 5)
  \/ SetTiltMode(0, "Tangent")
  \/ \E count \in {0, MaxPanes} : SetActivePaneCount(count)
  \/ \E enabled \in BOOLEAN : SetReturnMode(enabled)
  \/ \E deltaTime \in PlanesDeltaTimes : Update(deltaTime)

SpecPlanes == Init /\ [][NextPlanes]_vars

\* everything of instance i except its visible flag
InstanceContents(i) ==
  << controlPointsPack1[i], controlPointsPack2[i], controlPointsPack3[i],
     instanceColors[i], instanceScales[i], instanceElevations[i],
     instanceUvTransforms[i], animationParams[i].phase,
     animationParams[i].speed, animationParams[i].tiltMode,
     pendingReturnCompletion[i] >>

\* everything setCurveControlPoints does not write: the contents other than
\* the control points
RetainedContents(i) ==
  << instanceColors[i], instanceScales[i], instanceElevations[i],
     instanceUvTransforms[i], animationParams[i].phase,
     animationParams[i].speed, animationParams[i].tiltMode,
     pendingReturnCompletion[i] >>

\* C12: hidePane(index) clears only that instance's visible flag - its control
\* points, colour, scale, elevation, texture rectangle, phase, speed, tilt mode
\* and pending flag, every attribute of every other instance, the active pane
\* count and the preferred / enabled flags are unchanged, and a later
\* setCurveControlPoints on the index finds and keeps the retained contents.
C12_HidePaneClearsOnlyVisible ==
  [][ /\ \A index \in Panes :
           HidePane(index)
           => /\ animationParams'[index].visible = 0
              /\ InstanceContents(index)' = InstanceContents(index)
              /\ \A j \in Panes \ {index} :
                   /\ InstanceContents(j)' = InstanceContents(j)
                   /\ animationParams'[j] = animationParams[j]
              /\ UNCHANGED << activePanes, returnModePreferred,
                              returnModeEnabled, time, atlasInfo, useTexture >>
      /\ \A index \in Panes :
           SetCurveControlPoints(index, PointsB)
           => RetainedContents(index)' = RetainedContents(index) ]_vars

\* instance 0 is hidden with everything else about it still in place: control
\* points PointsB, a colour, size, elevation and tilt of its own, and its
\* pending flag set in a drain, while instance 1 is visible
C12_Witness ==
  /\ animationParams[0].visible = 0
  /\ controlPointsPack3[0] = Pack3(PointsB)
  /\ instanceColors[0] = 16711680
  /\ instanceScales[0] = 150
  /\ instanceElevations[0] = 5
  /\ animationParams[0].tiltMode = 1
  /\ pendingReturnCompletion[0] = 1
  /\ Draining
  /\ animationParams[1].visible = 1

\* ============================================================ unit claims ==
\* two control points; resampleTo4Points samples the segment between them
PointsTwo == << <<3000, 0, 0>>, <<0, 3000, 0>> >>
Green == NumberColor(65280)

\* the options App hands to new Flight for slot index
FlightOptions(index, controlPoints, flightData) ==
  [mergedCurves |-> TRUE, curveIndex |-> index,
   mergedPanes |-> "PlanesShader", paneIndex |-> index,
   controlPoints |-> controlPoints, curveColor |-> Red,
   paneSize |-> 100, paneColor |-> 0, elevationOffset |-> 15,
   paneTextureIndex |-> 0, animationSpeed |-> DefaultSpeed,
   tiltMode |-> "Tangent", returnFlight |-> FALSE,
   flightData |-> flightData]

\* the second control point list and the appearance are changed on the first
\* Flight only; every Flight is created, re-pointed and removed
NextFlight ==
  \/ \E flightData \in {IF Len(flights) = 0 THEN Departure ELSE NullMetadata} :
       FlightNew(FlightOptions(Len(flights), PointsA, flightData))
  \/ \E k \in FlightIndices : FlightCreate(k)
  \/ \E k \in FlightIndices : FlightSetControlPoints(k, PointsTwo)
  \/ \E k \in FlightIndices \cap {1} : FlightSetControlPoints(k, PointsB)
  \/ \E k \in FlightIndices \cap {1} : FlightSetCurveColor(k, Green)
  \/ \E k \in FlightIndices \cap {1} : FlightSetPaneColor(k, 255)
  \/ \E k \in FlightIndices \cap {1} : FlightSetPaneSize(k, 150)
  \/ \E k \in FlightIndices \cap {1} : FlightSetPaneElevation(k, 5)
  \/ \E k \in FlightIndices : FlightRemove(k)

SpecFlight == Init /\ [][NextFlight]_vars

\* what a path slot and an instance slot hold
CurveSlot(c) == << curveData[c], positions[c], colors[c], lineDistances[c] >>
PaneSlot(i) ==
  << animationParams[i], pendingReturnCompletion[i], controlPointsPack1[i],
     controlPointsPack2[i], controlPointsPack3[i], instanceColors[i],
     instanceScales[i], instanceElevations[i], instanceUvTransforms[i] >>

\* the slots of every other index and the extent of every buffer stay as
\* they are in this step
OnlyOwnSlots(f) ==
  /\ \A c \in Curves \ {f.curveIndex} : UNCHANGED CurveSlot(c)
  /\ \A i \in Panes \ {f.paneIndex} : UNCHANGED PaneSlot(i)
  /\ DOMAIN curveData' = Curves /\ DOMAIN animationParams' = Panes
  /\ \A c \in Curves :
       /\ DOMAIN positions'[c] = Vertices
       /\ DOMAIN colors'[c] = Vertices
       /\ DOMAIN lineDistances'[c] = Vertices
  /\ UNCHANGED << DOMAIN positions, DOMAIN colors, DOMAIN lineDistances,
                  DOMAIN controlPointsPack1, DOMAIN controlPointsPack2,
                  DOMAIN controlPointsPack3, DOMAIN pendingReturnCompletion,
                  DOMAIN instanceColors, DOMAIN instanceScales,
                  DOMAIN instanceElevations, DOMAIN instanceUvTransforms >>

\* a Flight that create() has registered in both renderers and that has not
\* been removed
Live(f) == f.cachedCurve /\ f.isShaderBasedPanes

\* the colours _applyColorToCurve writes for colour color and metadata
VertexColors(color, metadata) ==
  LET gradientParams == _computeGradientParams(color, metadata)
  IN  [v \in Vertices |->
         IF gradientParams # << >>
         THEN _getColorForProgress(gradientParams, SampleOf(v))
         ELSE << "rgb", _resolveSolidColor(color) >>]

\* C13: every mutation of a created Flight is written through to its own path
\* slot and instance slot (setControlPoints to both, setPaneColor, setPaneSize
\* and setPaneElevation to the instance slot, setCurveColor to the path slot),
\* remove() leaves both slots hidden, and none of these calls changes a slot
\* of another index or the extent of a buffer.
C13_FlightWritesThrough ==
  [][ \A k \in FlightIndices :
        LET f == flights[k]
            c == f.curveIndex
            i == f.paneIndex
        IN  Live(f) =>
              /\ \A controlPoints \in {PointsB, PointsTwo} :
                   FlightSetControlPoints(k, controlPoints) =>
                     /\ curveData'[c] =
                          [controlPoints |-> controlPoints, color |-> f.color,
                           metadata |-> f.flightData, visible |-> TRUE]
                     /\ positions'[c] = SampledPositions(controlPoints)
                     /\ lineDistances'[c] = SampledDistances(controlPoints)
                     /\ controlPointsPack1'[i] =
                          Pack1(resampleTo4Points(controlPoints))
                     /\ controlPointsPack2'[i] =
                          Pack2(resampleTo4Points(controlPoints))
                     /\ controlPointsPack3'[i] =
                          Pack3(resampleTo4Points(controlPoints))
                     /\ animationParams'[i].visible = 1
                     /\ OnlyOwnSlots(f)
              /\ FlightSetPaneColor(k, 255) =>
                   instanceColors'[i] = 255 /\ OnlyOwnSlots(f)
              /\ FlightSetPaneSize(k, 150) =>
                   instanceScales'[i] = 150 /\ OnlyOwnSlots(f)
              /\ FlightSetPaneElevation(k, 5) =>
                   instanceElevations'[i] = 5 /\ OnlyOwnSlots(f)
              /\ FlightSetCurveColor(k, Green) =>
                   /\ curveData'[c].color = Green
                   /\ colors'[c] = VertexColors(Green, f.flightData)
                   /\ OnlyOwnSlots(f)
              /\ FlightRemove(k) =>
                   /\ ~curveData'[c].visible
                   /\ ~IsVisible(animationParams', i)
                   /\ OnlyOwnSlots(f) ]_vars

\* the first Flight has had its control points, colours, size and elevation
\* changed and the second one has been removed, the first one untouched by it
C13_Witness ==
  /\ Len(flights) = 2
  /\ Live(flights[1])
  /\ flights[1].controlPoints = PointsTwo
  /\ curveData[0].controlPoints = PointsTwo
  /\ controlPointsPack1[0] = Pack1(resampleTo4Points(PointsTwo))
  /\ curveData[0].color = Green
  /\ instanceColors[0] = 255
  /\ instanceScales[0] = 150
  /\ instanceElevations[0] = 5
  /\ curveData[0].visible /\ IsVisible(animationParams, 0)
  /\ flights[2].isShaderBasedPanes /\ ~flights[2].cachedCurve
  /\ ~curveData[1].visible /\ ~IsVisible(animationParams, 1)


\* ============================================================= App claims ==
\* App after its constructor has pre-generated between 0 and MAX_FLIGHTS
\* configurations and before it calls initializeFlights
InitOfApp ==
  /\ InitPlanes
  /\ InitCurves
  /\ lastCall = "accepted"
  /\ f32 = F32Idle
  /\ f32Before = 0 - 1
  /\ flights = << >>
  /\ guiParams = [numFlights |-> MAX_FLIGHTS, returnFlight |-> TRUE,
                  hidePath |-> FALSE, hidePlane |-> FALSE, paneStyle |-> "SVG"]
  /\ \E count \in 0 .. MAX_FLIGHTS :
       app = [mergedRenderers |-> FALSE, svgTexture |-> FALSE,
              svgTexturePromise |-> FALSE, thenPending |-> FALSE,
              buildsInFlight |-> 0,
              preGeneratedConfigs |-> count]
  /\ lastFrame = NoFrame
  /\ utilCall = NoCall

TargetInputs == (0 - 1) .. (MAX_FLIGHTS + 1)
FrameDeltaTimes == {5}

NextApp ==
  \/ InitializeFlights
  \/ \E target \in TargetInputs : UpdateFlightCount(target)
  \/ \E value \in BOOLEAN : SetReturnFlight(value)
  \/ \E success \in BOOLEAN : SvgLoadSettles(success)
  \/ \E delta \in FrameDeltaTimes : Animate(delta)

SpecApp == InitOfApp /\ [][NextApp]_vars

\* the k-th Flight owns slot k - 1 of both renderers, and exactly the slots
\* below the number of Flights are visible
SlotsMatchFlights ==
  /\ \A k \in FlightIndices :
       flights[k].curveIndex = k - 1 /\ flights[k].paneIndex = k - 1
  /\ \A k, l \in FlightIndices :
       k # l => /\ flights[k].curveIndex # flights[l].curveIndex
                /\ flights[k].paneIndex # flights[l].paneIndex
  /\ \A c \in Curves : curveData[c].visible <=> c < Len(flights)
  /\ \A i \in Panes : IsVisible(animationParams, i) <=> i < Len(flights)

\* C14: after initializeFlights and any updateFlightCount calls the number of
\* Flights is min(max(target, 0), available configurations), the k-th Flight
\* owns path slot k and instance slot k as long as it lives, no two Flights
\* share an index, and in both renderers exactly the slots below the number of
\* Flights are visible.
C14_SlotsStableAndUnique ==
  [][ /\ \A target \in TargetInputs :
           UpdateFlightCount(target) =>
             /\ Len(flights') = Min(Max(target, 0), AvailableConfigs)
             /\ \A k \in 1 .. Min(Len(flights), Len(flights')) :
                  /\ flights'[k].curveIndex = flights[k].curveIndex
                  /\ flights'[k].paneIndex = flights[k].paneIndex
      /\ app'.mergedRenderers => SlotsMatchFlights' ]_vars

\* one Flight is left after the count went down from two: slot 0 is visible
\* and slot 1, which held a path, is hidden
C14_Witness ==
  /\ app.mergedRenderers
  /\ Len(flights) = 1
  /\ curveData[0].visible /\ IsVisible(animationParams, 0)
  /\ curveData[1].controlPoints # << >> /\ ~curveData[1].visible
  /\ controlPointsPack1[1] # <<0, 0, 0, 0>> /\ ~IsVisible(animationParams, 1)


\* ----------------------------------------------------------- speed claims --
\* 0.1 and 0.1008: the difference is halved three times before it is
\* within 1e-4
SpeedInputs == {DefaultSpeed, DefaultSpeed + 8 * Eps}
\* 0, 1/12 s (factor 1/2) and 1 s (factor 1)
SmoothingDeltaTimes == {0, 1, TicksPerSecond}

\* the speed of the first Flight is changed; every Flight is created
NextSpeed ==
  \/ FlightNew(FlightOptions(Len(flights), PointsA, NullMetadata))
  \/ \E k \in FlightIndices : FlightCreate(k)
  \/ \E k \in FlightIndices \cap {1}, speed \in SpeedInputs,
        immediate \in BOOLEAN :
       FlightSetAnimationSpeed(k, speed, immediate)
  \/ \E k \in FlightIndices \cap {1}, deltaTime \in SmoothingDeltaTimes :
       FlightUpdate(k, deltaTime)

SpecSpeed == Init /\ [][NextSpeed]_vars

\* the speed in effect in the instance slot of Flight f
ActiveSpeed(params, f) == params[f.paneIndex].speed

\* C15: setAnimationSpeed(speed) without immediate does not make the speed in
\* the Flight's instance slot jump to the target at the call; an update moves
\* it by min(1, deltaTime * 6) of the remaining difference and snaps within
\* 1e-4; with immediate the slot holds the target right after the call.
C15_SpeedApproachesTarget ==
  [][ \A k \in FlightIndices :
        Live(flights[k]) =>
          /\ \A speed \in SpeedInputs :
               /\ FlightSetAnimationSpeed(k, speed, FALSE)
                    => \/ ActiveSpeed(animationParams, flights[k]) = speed
                       \/ ActiveSpeed(animationParams', flights[k]) # speed
               /\ FlightSetAnimationSpeed(k, speed, TRUE)
                    => ActiveSpeed(animationParams', flights[k]) = speed
          /\ \A deltaTime \in SmoothingDeltaTimes :
               FlightUpdate(k, deltaTime)
                 => ActiveSpeed(animationParams', flights[k])
                      = flights'[k].animationSpeed ]_vars


\* ----------------------------------------------------- return flight claims --
\* the options of a Flight whose panes are animated on the CPU (the first
\* Flight) or by the shader (the others); speed 0.25 per second.  App makes
\* its Flights with returnFlight true (params.returnFlight)
ReturnOptions(index, returnFlight) ==
  [FlightOptions(index, PointsA, NullMetadata) EXCEPT
     !.mergedPanes = IF index = 0 THEN "cpu" ELSE "PlanesShader",
     !.animationSpeed = Unit \div 4,
     !.returnFlight = returnFlight]

\* frames of 1/2 s and 1 s
ReturnDeltaTimes == {TicksPerSecond \div 2, TicksPerSecond}

\* the elapsed time of a Flight updated for at most MaxTime seconds
MaxElapsed(f) == MaxTime * f.animationSpeed

NextReturn ==
  \/ FlightNew(ReturnOptions(Len(flights), TRUE))
  \/ \E k \in FlightIndices : FlightCreate(k)
  \/ \E k \in FlightIndices, deltaTime \in ReturnDeltaTimes :
       /\ flights[k].animationTime
            + (deltaTime * flights[k].animationSpeed) \div TicksPerSecond
            <= MaxElapsed(flights[k])
       /\ FlightUpdate(k, deltaTime)
  \/ \E k \in FlightIndices, enabled \in BOOLEAN :
       FlightSetReturnFlight(k, enabled)

SpecReturn == Init /\ [][NextReturn]_vars

\* the path parameter of Flight f
PathParameter(f) == FlightT(f.returnFlight, f.animationTime)

\* C16: Flight.setReturnFlight(enabled) keeps the path parameter derived from
\* the elapsed time, leaves the remapped elapsed time in [0,1) after switching
\* to one-way and in [0,2) after switching to round-trip, changes nothing when
\* called with the current mode, and never touches either renderer.
C16_SetReturnFlightKeepsProgress ==
  [][ \A k \in FlightIndices, enabled \in BOOLEAN :
        FlightSetReturnFlight(k, enabled) =>
          /\ PathParameter(flights'[k]) = PathParameter(flights[k])
          /\ flights[k].returnFlight # enabled =>
               /\ 0 <= flights'[k].animationTime
               /\ flights'[k].animationTime < (IF enabled THEN 2 * Unit ELSE Unit)
          /\ flights[k].returnFlight = enabled => flights' = flights
          /\ UNCHANGED << planeVars, curveVars >> ]_vars


\* ----------------------------------------------------------- frame claims --
\* C17: every frame of the animate loop runs PlanesShader.update(delta), then
\* Curves.applyUpdates(), then the draw call, once each and in this order, so
\* that at the draw needsPositionUpdate and needsColorUpdate are false and no
\* write made before the flush is still unflushed.
C17_FrameOrder ==
  [][ \A delta \in FrameDeltaTimes :
        Animate(delta) =>
          /\ lastFrame'.steps = << "update", "applyUpdates", "render" >>
          /\ time' = time + delta
          /\ ~lastFrame'.needsPositionUpdate
          /\ ~lastFrame'.needsColorUpdate
          /\ ~needsPositionUpdate' /\ ~needsColorUpdate' ]_vars

\* a frame was drawn that began with a position or colour write pending
C17_Witness ==
  /\ lastFrame.steps # << >>
  /\ lastFrame.pendingAtStart
  /\ ~needsPositionUpdate /\ ~needsColorUpdate
  /\ Len(flights) > 0


\* ===================================================== FlightUtils claims ==
\* the origin, a point on the surface (below the floor of 3020) and a point
\* above the floor
UtilPoints == {ZeroVector, <<EARTH_RADIUS, 0, 0>>, <<0, 0, 4000>>}
UtilPointLists ==
  {<< >>} \cup {<<a, b>> : a \in UtilPoints, b \in UtilPoints}
    \cup {<<a, b, c, d>> : a \in UtilPoints, b \in UtilPoints,
                           c \in UtilPoints, d \in UtilPoints}
\* places on the equator and the north pole, no two of them opposite
Places == {Geo(0, 0), Geo(0, 90), Geo(90, 0)}
\* the unit vectors Vector3.randomDirection() is taken to return
RandomDirections == {<<1, 0, 0>>, <<0, 1, 0>>, <<0, 0, 1>>}

\* the arguments are a list of control points or two places
InitUtils ==
  /\ InitPlanes
  /\ InitCurves
  /\ lastCall = "accepted"
  /\ f32 = F32Idle
  /\ f32Before = 0 - 1
  /\ flights = << >>
  /\ guiParams = [numFlights |-> MAX_FLIGHTS, returnFlight |-> TRUE,
                  hidePath |-> FALSE, hidePlane |-> FALSE, paneStyle |-> "SVG"]
  /\ app = [mergedRenderers |-> FALSE, svgTexture |-> FALSE,
            svgTexturePromise |-> FALSE, thenPending |-> FALSE,
            buildsInFlight |-> 0,
            preGeneratedConfigs |-> MAX_FLIGHTS]
  /\ lastFrame = NoFrame
  /\ \/ \E points \in UtilPointLists :
          utilCall = [NoCall EXCEPT !.points = points]
     \/ \E departure \in Places, arrival \in Places :
          utilCall = [NoCall EXCEPT !.departure = departure,
                                    !.arrival = arrival]

NextUtils ==
  \/ EnsureMinimumCurveAltitude
  \/ NormalizeControlPoints
  \/ \E randomStart \in RandomDirections, randomEnd \in RandomDirections :
       GenerateParabolicControlPoints(randomStart, randomEnd)

SpecUtils == InitUtils /\ [][NextUtils]_vars

SafeRadius == EARTH_RADIUS + MIN_CURVE_ALTITUDE

\* the point at n thirds of the segment from a to b
ThirdPoint(a, b, n) == [c \in 1 .. 3 |-> a[c] + ((b[c] - a[c]) * n) \div 3]

\* C18: normalizeControlPoints always yields 4 points: for a 4-point input the
\* altitude-adjusted copies in the same order, points at or above the floor
\* unchanged and the input not mutated; for any other input 4 points sampled
\* from the curve through the input at 0, 1/3, 2/3 and 1.
C18_NormalizeYieldsFourPoints ==
  utilCall.op = "normalizeControlPoints" =>
    /\ Len(utilCall.result) = 4
    /\ Len(utilCall.points) = 4 =>
         \A i \in 1 .. 4 :
           /\ utilCall.result[i].v = utilCall.points[i]
           /\ ~ShorterThan(Raw(utilCall.points[i]), SafeRadius)
                => utilCall.result[i] = Raw(utilCall.points[i])
    /\ Len(utilCall.points) = 2 =>
         LET a == utilCall.points[1]
             b == utilCall.points[2]
         IN  utilCall.result =
               ensureMinimumCurveAltitude(
                 << Raw(ThirdPoint(a, b, 0)), Raw(ThirdPoint(a, b, 1)),
                    Raw(ThirdPoint(a, b, 2)), Raw(ThirdPoint(a, b, 3)) >>,
                 EARTH_RADIUS, MIN_CURVE_ALTITUDE)

\* C19: every point returned by ensureMinimumCurveAltitude, each of the 9
\* points of generateParabolicControlPoints and each point of
\* normalizeControlPoints is at least radius + minAltitude = 3020 from the
\* origin, and a point below the floor is moved radially to exactly 3020.
C19_AltitudeFloor ==
  /\ utilCall.op # "none" =>
       \A i \in 1 .. Len(utilCall.result) :
         ~ShorterThan(utilCall.result[i], SafeRadius)
  /\ utilCall.op = "generateParabolicControlPoints" =>
       Len(utilCall.result) = 9
  /\ utilCall.op = "ensureMinimumCurveAltitude" =>
       \A i \in 1 .. Len(utilCall.points) :
         ShorterThan(Raw(utilCall.points[i]), SafeRadius) =>
           /\ utilCall.result[i].v = utilCall.points[i]
           /\ utilCall.result[i].to = 100 * SafeRadius

\* C20: two calls of generateParabolicControlPoints with the same departure,
\* arrival and options return the same 9 points, also when departure and
\* arrival coincide or the projected tangent is near zero.
C20_GenerateIsDeterministic ==
  (utilCall.op = "generateParabolicControlPoints" /\ utilCall.calls = 2) =>
    utilCall.result = utilCall.previous


\* --------------------------------------------------------- texture claims --
\* a 2 x 1 atlas whose slots are all used, without a scale (setTexture stores
\* the scale 1 for a missing one)
Atlas2x1 == [columns |-> 2, rows |-> 1, count |-> 2,
             scaleX |-> UvOne, scaleY |-> UvOne]
AtlasInputs == {Atlas2x2, Atlas2x1}
TextureIndexInputs == (0 - 4) .. 4

NextTexture ==
  \/ \E hasTexture \in BOOLEAN, info \in AtlasInputs \cup {NoAtlas} :
       SetTexture(hasTexture, info)
  \/ \E index \in Panes \cup EdgePaneIndices, textureIndex \in TextureIndexInputs :
       SetTextureIndex(index, textureIndex)

SpecTexture == Init /\ [][NextTexture]_vars

LatitudeInputs == {0}
LongitudeInputs == {0 - 90, 0, 90, 180}
RadiusInputs ==
  {1, 2, 100, 1000, EARTH_RADIUS, EARTH_RADIUS + MIN_CURVE_ALTITUDE, 6000}

InitGeo ==
  /\ InitPlanes
  /\ InitCurves
  /\ lastCall = "accepted"
  /\ f32 = F32Idle
  /\ f32Before = 0 - 1
  /\ flights = << >>
  /\ guiParams = [numFlights |-> MAX_FLIGHTS, returnFlight |-> TRUE,
                  hidePath |-> FALSE, hidePlane |-> FALSE, paneStyle |-> "SVG"]
  /\ app = [mergedRenderers |-> FALSE, svgTexture |-> FALSE,
            svgTexturePromise |-> FALSE, thenPending |-> FALSE,
            buildsInFlight |-> 0,
            preGeneratedConfigs |-> MAX_FLIGHTS]
  /\ lastFrame = NoFrame
  /\ \E lat \in LatitudeInputs, lng \in LongitudeInputs, radius \in RadiusInputs :
       utilCall = [NoCall EXCEPT !.departure = Geo(lat, lng),
                                 !.radius = radius]

NextGeo ==
  \/ LatLngToVector3
  \/ Vector3ToLatLng

SpecGeo == InitGeo /\ [][NextGeo]_vars

\* C22: for every latitude in [-90, 90] and longitude in (-180, 180],
\* vector3ToLatLng(latLngToVector3(lat, lng, radius), radius) returns the same
\* latitude and longitude.
C22_GeographicRoundTrip ==
  utilCall.op = "vector3ToLatLng" =>
    utilCall.result = << Geo(utilCall.departure.lat, utilCall.departure.lng) >>

\* ============================================================ colour claims ==
DepartureMetadata == [kind |-> "departure", lat |-> 30, lng |-> 60]
MetadataInputs == { NullMetadata, UndefinedMetadata, DepartureMetadata }

NextColor ==
  \/ \E curveIndex \in Curves, color \in ColorInputs,
        metadata \in MetadataInputs :
       SetCurve(curveIndex, PointsA, color, metadata)
  \/ \E curveIndex \in Curves, color \in ColorInputs,
        metadata \in MetadataInputs :
       SetCurveColor(curveIndex, color, metadata)
  \/ \E curveIndex \in Curves : HideCurve(curveIndex)
  \/ ApplyUpdates

SpecColor == Init /\ [][NextColor]_vars

\* the colours of path c run from the start lightness to the end lightness
VariesAlongPath(c) ==
  /\ \A v \in Vertices : colors[c][v][1] = "hsl"
  /\ \E v \in Vertices : colors[c][v][4] = 35 * SegmentsPerCurve
  /\ \E v \in Vertices : colors[c][v][4] = 75 * SegmentsPerCurve

\* one single solid colour on every vertex of path c
OneSolidColor(c) ==
  \A v \in Vertices : colors[c][v] = << "rgb", _resolveSolidColor(curveData[c].color) >>

\* C23: a visible path whose colour carries the gradient marker has vertex
\* colours running from the start lightness to the end lightness; a visible
\* path with a plain colour has one single solid colour on every vertex,
\* whatever metadata accompanies it.
C23_ColourPolicy ==
  \A c \in Curves :
    curveData[c].visible =>
      IF curveData[c].color.type = "gradient"
      THEN VariesAlongPath(c)
      ELSE OneSolidColor(c)

\* ============================================================= snap claims ==
\* instance i is active and visible with its cycle within epsilon of 1, on
\* either side of it
NearTurningPoint(i) ==
  /\ Considered(animationParams, activePanes, i)
  /\ Cycle(i) > Unit - Eps
  /\ Cycle(i) < Unit + Eps

\* C24: on a disable request an active visible instance whose cycle is within
\* epsilon of 1, on either side, has its phase rewound by one cycle-unit and
\* its pending flag left 0; its cycle right after the request lies in the
\* forward leg [0, 1], and a repeated setReturnMode(false) at the same time
\* does not mark it pending.
C24_SnapContinuesForward ==
  [][ \A i \in Panes :
        (NearTurningPoint(i) /\ SetReturnMode(FALSE))
        => /\ PhaseRewound(i)
           /\ pendingReturnCompletion'[i] = 0
           /\ Cycle(i)' >= 0
           /\ Cycle(i)' <= Unit
           /\ DisablePending(i)' = 0 ]_vars

\* =========================================================== update claims ==
\* the step is an update: nothing else moves the shared time
TimeAdvances == time' # time

\* what update leaves alone on instance i
InstanceKept(i) ==
  /\ animationParams'[i].speed = animationParams[i].speed
  /\ animationParams'[i].tiltMode = animationParams[i].tiltMode
  /\ animationParams'[i].visible = animationParams[i].visible

\* C25: update(deltaTime) advances the shared time by exactly deltaTime and
\* then reconciles - it never changes a speed, tilt mode, visible flag,
\* control point or appearance value; it changes the phase or pending flag
\* only of visible instances with index below the active pane count, which
\* setActivePaneCount keeps at most maxPanes; and when preferred is true or
\* enabled is already false it changes nothing except the time.
C25_UpdateTouchesOnlyConsidered ==
  [][ /\ activePanes' <= MaxPanes
      /\ TimeAdvances =>
           /\ \E deltaTime \in DeltaTimes : time' = time + deltaTime
           /\ \A i \in Panes : InstanceKept(i)
           /\ UNCHANGED << packVars, appearanceVars, activePanes,
                           returnModePreferred >>
           /\ \A i \in Panes :
                ~Considered(animationParams, activePanes, i)
                => /\ animationParams'[i].phase = animationParams[i].phase
                   /\ pendingReturnCompletion'[i] = pendingReturnCompletion[i]
           /\ (returnModePreferred \/ ~returnModeEnabled)
              => UNCHANGED << animationParams, pendingReturnCompletion,
                              returnModeEnabled >> ]_vars

\* a drain is running after some update, with one instance waited for and a
\* visible instance beyond the active pane count on its return leg
C25_Witness ==
  /\ time > 0
  /\ Draining
  /\ \E i \in Panes : /\ Considered(animationParams, activePanes, i)
                      /\ pendingReturnCompletion[i] = 1
  /\ \E j \in Panes : /\ IsVisible(animationParams, j)
                      /\ ~(j < activePanes)
                      /\ Cycle(j) > Unit + Eps

\* ======================================================= draw-range claims ==
\* a path with a higher index than c has been written before
HigherIndexSeen(c) ==
  \E j \in Curves : j > c /\ curveData[j].controlPoints # << >>

\* the step is an accepted setCurve on slot c
SetCurveStep(c) ==
  /\ \E controlPoints \in CurvePointInputs, color \in ColorInputs :
       SetCurve(c, controlPoints, color, NullMetadata)
  /\ lastCall' = "accepted"

\* C26: setCurve(index) extends the visible curve count to index + 1 only when
\* index is the highest-indexed path seen so far, otherwise leaves the count
\* unchanged, and never shrinks it - so after setVisibleCurveCount(c) a
\* setCurve on an index that is not a new highest index does not make more
\* than c paths drawn; hideCurve(index) zeroes the positions and arc-length
\* values of the slot and never changes the count.
C26_CountFollowsHighestIndex ==
  [][ \A c \in Curves :
        /\ SetCurveStep(c) =>
             /\ currentCurveCount' >= currentCurveCount
             /\ currentCurveCount' \in { currentCurveCount, c + 1 }
             /\ HigherIndexSeen(c) => currentCurveCount' = currentCurveCount
        /\ HideCurve(c) =>
             /\ positions'[c] = [v \in Vertices |-> ZeroVertex]
             /\ lineDistances'[c] = [v \in Vertices |-> ZeroDistance]
             /\ currentCurveCount' = currentCurveCount ]_vars

\* ============================================================ dash claims ==
\* two different control point lists, so that a rewrite changes arc lengths
DashPointInputs == { PointsA, PointsOrigin }

NextDash ==
  \/ \E curveIndex \in Curves, controlPoints \in DashPointInputs :
       SetCurve(curveIndex, controlPoints, Red, NullMetadata)
  \/ \E curveIndex \in Curves : HideCurve(curveIndex)
  \/ \E dash \in DashInputs, gap \in GapInputs : SetDashPattern(dash, gap)
  \/ ApplyUpdates

SpecDash == Init /\ [][NextDash]_vars

\* the step is setDashPattern with a pair that is the current one
SamePatternStep ==
  \E dash \in DashInputs, gap \in GapInputs :
    /\ SetDashPattern(dash, gap)
    /\ Max(0, dash) = dashSize
    /\ Max(0, gap) = gapSize

\* dashing is active and no arc-length upload is pending: the state every
\* applyUpdates executed while dashing is active leaves behind
FlushedWhileDashing == dashSize > 0 /\ ~needsLineDistanceUpdate

\* C27: setDashPattern(dash, gap) rebuilds the material only when the pair
\* (max(0, dash), max(0, gap)) differs from the current pair, and arc-length
\* uploads are never lost - after an applyUpdates executed while dashing is
\* active the uploaded arc-length values are those of every write made so far,
\* including writes whose dirty flag a flush dropped while dashing was off.
C27_ArcLengthUploadsNotLost ==
  /\ [][SamePatternStep => UNCHANGED << material, needsLineDistanceUpdate >>]_vars
  /\ [](FlushedWhileDashing => uploadedDistances = lineDistances)

\* dashing is on and the flush has uploaded arc lengths that were written and
\* flushed away while dashing was off
C27_Witness ==
  /\ dashSize > 0
  /\ ~needsLineDistanceUpdate
  /\ "lineDistance" \in attributeNeedsUpdate
  /\ \E c \in Curves : uploadedDistances[c] # [v \in Vertices |-> ZeroDistance]

\* ======================================================= mode-flag claims ==
\* counts handed to setActivePaneCount that are not negative
NaturalPaneCounts == 0 .. (MaxPanes + 1)

NextFlags ==
  \/ \E enabled \in BOOLEAN : SetReturnMode(enabled)
  \/ \E deltaTime \in DeltaTimes : Update(deltaTime)
  \/ \E count \in NaturalPaneCounts : SetActivePaneCount(count)
  \/ \E index \in Panes : HidePane(index)
  \/ \E index \in Panes : SetCurveControlPoints(index, PointsOrigin)

SpecFlags == Init /\ [][NextFlags]_vars

\* C28: in every state reached from construction (with either returnMode
\* option) by setReturnMode, update, setActivePaneCount (non-negative counts),
\* hidePane and setCurveControlPoints calls, preferred implies enabled, the two
\* flags differ only in the drain state (preferred false, enabled true), and a
\* pending flag is 1 only while preferred is false and only for an index below
\* the active pane count.
C28_ModeFlagsConsistent ==
  /\ returnModePreferred => returnModeEnabled
  /\ returnModePreferred # returnModeEnabled => Draining
  /\ \A i \in Panes :
       pendingReturnCompletion[i] = 1
       => ~returnModePreferred /\ i < activePanes

\* a drain with the last active instance waited for, next to a visible
\* instance whose flag is 0
C28_Witness ==
  /\ time > 0
  /\ Draining
  /\ \E i \in Panes :
       /\ pendingReturnCompletion[i] = 1
       /\ activePanes = i + 1
       /\ \E j \in Panes \ {i} : /\ IsVisible(animationParams, j)
                                 /\ pendingReturnCompletion[j] = 0

\* ============================================================ drain claims ==
\* One active visible instance moving one grid step per second, so that a
\* frame of deltaTime seconds advances its cycle by deltaTime grid steps: a
\* short frame and a frame of one grid step less than a whole cycle-unit
DrainDeltaTimes == {1, Unit - 1}
\* the round trip of that instance takes 2 * Unit seconds
DrainPeriod == 2 * Unit
\* phases at the disable request: start of the forward leg, one grid step
\* before its end, and one grid step before the end of the return leg
DrainPhases == {0, Unit - 1, 2 * Unit - 1}

\* return mode is on, setActivePaneCount(1), setCurveControlPoints(0, ...) and
\* setAnimationSpeed(0, ...) have been called
InitDrain ==
  /\ time = 0
  /\ returnModeEnabled = TRUE
  /\ returnModePreferred = TRUE
  /\ activePanes = 1
  /\ \E phase \in DrainPhases :
       animationParams =
         [i \in Panes |->
            IF i = 0
            THEN [phase |-> phase, speed |-> 1, tiltMode |-> 0, visible |-> 1]
            ELSE [phase |-> InitialPhase(i), speed |-> DefaultSpeed,
                  tiltMode |-> 0, visible |-> 0]]
  /\ pendingReturnCompletion = [i \in Panes |-> 0]
  /\ controlPointsPack1 = [i \in Panes |-> <<0, 0, 0, 0>>]
  /\ controlPointsPack2 = [i \in Panes |-> <<0, 0, 0, 0>>]
  /\ controlPointsPack3 = [i \in Panes |-> <<0, 0, 0, 0>>]
  /\ landing = {}
  /\ drawnOnReturn = {}
  /\ instanceColors = [i \in Panes |-> White]
  /\ instanceScales = [i \in Panes |-> 0]
  /\ instanceElevations = [i \in Panes |-> 0]
  /\ instanceUvTransforms = [i \in Panes |-> <<0, 0, UvOne, UvOne>>]
  /\ atlasInfo = NoAtlas
  /\ useTexture = 0
  /\ InitCurves
  /\ lastCall = "accepted"
  /\ f32 = F32Idle
  /\ f32Before = 0 - 1
  /\ InitApp

\* the disable request, with no enable request after it
DisableRequest == returnModePreferred /\ SetReturnMode(FALSE)

\* a frame of the drain
DrainFrame ==
  Draining /\ \E deltaTime \in DrainDeltaTimes :
                UpdateOnCircle(deltaTime, DrainPeriod)

NextDrain == DisableRequest \/ DrainFrame

\* update is called every frame
SpecDrain == InitDrain /\ [][NextDrain]_vars /\ WF_vars(DrainFrame)

\* no active visible instance is on its return leg
NoneReturning ==
  \A i \in Panes :
    Considered(animationParams, activePanes, i) => ~(Cycle(i) > Unit)

\* C29: the drain terminates - after setReturnMode(false), with no enable
\* request after it, update called every frame with deltaTime > 0 and every
\* active visible instance at a positive speed with deltaTime * speed < 1,
\* enabled eventually becomes false and stays false; and if no active visible
\* instance is on its return leg at the disable request, enabled becomes false
\* in the very next update.
C29_DrainTerminates ==
  /\ Draining ~> ~returnModeEnabled
  /\ [][~returnModeEnabled => ~returnModeEnabled']_vars
  /\ [][(DisableRequest /\ NoneReturning) => NoPending']_vars
  /\ [][(DrainFrame /\ NoPending) => ~returnModeEnabled']_vars

\* ============================================================ style claims ==
\* App.params.paneStyle as the GUI offers it
PaneStyles == {"Pane", "SVG"}
StyleTargets == {1, MAX_FLIGHTS}

NextStyle ==
  \/ \E style \in PaneStyles : SetPaneStyle(style)
  \/ InitializeFlights
  \/ \E success \in BOOLEAN : SvgLoadSettles(success)
  \/ \E target \in StyleTargets : UpdateFlightCount(target)
  \/ \E value \in BOOLEAN : SetReturnFlight(value)

SpecStyle == InitOfApp /\ [][NextStyle]_vars

\* a continuation of the load is waiting while the renderers exist
ContinuationWaits == app.thenPending /\ app.mergedRenderers

\* C30: under every interleaving of setPaneStyle, initializeFlights and
\* completions of the atlas load, the instance renderer has a texture only
\* while the pane style is SVG (a load that resolves after the style was
\* switched away is discarded), a load that resolves while the style is SVG
\* leaves the texture on the renderer that is current then, at most one atlas
\* build is in flight, and a failed build clears the memoized promise, so that
\* a later request starts a new build.
C30_TextureFollowsStyle ==
  /\ [](useTexture = 1 => guiParams.paneStyle = "SVG")
  /\ [](app.buildsInFlight <= 1)
  /\ [][(SvgLoadSettles(TRUE) /\ guiParams.paneStyle # "SVG")
        => useTexture' = 0]_vars
  /\ [][(SvgLoadSettles(TRUE) /\ guiParams.paneStyle = "SVG"
         /\ ContinuationWaits)
        => useTexture' = 1 /\ atlasInfo' # NoAtlas]_vars
  /\ [][SvgLoadSettles(FALSE)
        => ~app'.svgTexturePromise /\ app'.buildsInFlight = 0]_vars
  /\ [][(InitializeFlights /\ guiParams.paneStyle = "SVG"
         /\ ~app.svgTexture /\ ~app.svgTexturePromise)
        => app'.buildsInFlight = 1 /\ app'.svgTexturePromise]_vars

\* the load has resolved under the SVG style, no build is in flight, and the
\* texture is on the renderer of the one flight that exists now
C30_Witness ==
  /\ guiParams.paneStyle = "SVG"
  /\ app.svgTexture
  /\ app.buildsInFlight = 0
  /\ useTexture = 1
  /\ Len(flights) = 1

====
